---- MODULE Spec2Model ----
(***************************************************************************)
(* docpup: the orchestrator generateDocs (cli.ts) with its worker pool,    *)
(* the per-repository pipeline and the output file system, and the         *)
(* gitignore merger updateGitignore (gitignore.ts).                        *)
(*                                                                         *)
(* Text is modelled as a sequence of tokens: "\n", "\r" and " " are the    *)
(* characters the code treats specially (split, trim); every other token   *)
(* stands for a run of ordinary characters.                                *)
(***************************************************************************)
EXTENDS Integers, Sequences, FiniteSets, TLC

(***************************************************************************)
(* Bounds of the model.                                                    *)
(***************************************************************************)
MaxCalls == 2
MaxInitLines == 2
MaxSubDirs == 1
MaxRepos == 2
MaxFiles == 1
MaxHrefLen == 3
MaxNodes == 2
MaxLayoutFiles == 2
MaxExcludeDirs == 2

(***************************************************************************)
(* Text helpers: String.prototype.split(/\r?\n/), trim, Array.join("\n"),  *)
(* endsWith("\n").                                                         *)
(***************************************************************************)
NL == "\n"
CR == "\r"
SP == " "
Whitespace == {SP, CR, NL}

Max(a, b) == IF a >= b THEN a ELSE b

Last(s) == s[Len(s)]

Front(s) == SubSeq(s, 1, Len(s) - 1)

\* the separator /\r?\n/ swallows one "\r" that stands right before the "\n"
StripCR(line) ==
  IF Len(line) > 0 /\ Last(line) = CR THEN Front(line) ELSE line

RECURSIVE SplitFrom(_, _, _)
SplitFrom(s, i, cur) ==
  IF i > Len(s) THEN <<cur>>
  ELSE IF s[i] = NL THEN <<StripCR(cur)>> \o SplitFrom(s, i + 1, <<>>)
  ELSE SplitFrom(s, i + 1, Append(cur, s[i]))

\* existingContent.split(/\r?\n/): "" splits into the one line ""
Split(s) == SplitFrom(s, 1, <<>>)

RECURSIVE TrimStart(_)
TrimStart(line) ==
  IF Len(line) > 0 /\ Head(line) \in Whitespace THEN TrimStart(Tail(line))
  ELSE line

RECURSIVE TrimEnd(_)
TrimEnd(line) ==
  IF Len(line) > 0 /\ Last(line) \in Whitespace THEN TrimEnd(Front(line))
  ELSE line

Trim(line) == TrimEnd(TrimStart(line))

RECURSIVE Join(_)
Join(ls) ==
  IF Len(ls) = 0 THEN <<>>
  ELSE IF Len(ls) = 1 THEN ls[1]
  ELSE ls[1] \o <<NL>> \o Join(Tail(ls))

EndsWithNL(s) == Len(s) > 0 /\ Last(s) = NL

\* Splice that pushes the entry to the end of the array
Splice_AtEnd(ls, at, entry) == Append(ls, entry)

\* lines.splice(at, 0, entry) with the 0-based index `at`
Splice(ls, at, entry) ==
  SubSeq(ls, 1, at) \o <<entry>> \o SubSeq(ls, at + 1, Len(ls))

(***************************************************************************)
(* updateGitignore (gitignore.ts).                                         *)
(***************************************************************************)
\* `# ${args.sectionHeader}`
HeaderLineOf(sectionHeader) == <<"#", SP>> \o sectionHeader

\* [docsEntry, ...docsSubDirEntries, indexEntry].filter(Boolean): an optional
\* argument is a sequence of zero or one strings; "" is dropped as well
RECURSIVE FilterEntries(_)
FilterEntries(es) ==
  IF Len(es) = 0 THEN <<>>
  ELSE IF Head(es) = <<>> THEN FilterEntries(Tail(es))
  ELSE <<Head(es)>> \o FilterEntries(Tail(es))

EntriesOf(args) ==
  FilterEntries(args.docsEntry \o args.docsSubDirEntries \o args.indexEntry)

\* lines.findIndex((line) => line.trim() === headerLine), 1-based, 0 for -1
FindHeader(ls, headerLine) ==
  LET hits == {i \in 1..Len(ls) : Trim(ls[i]) = headerLine}
  IN IF hits = {} THEN 0 ELSE CHOOSE i \in hits : \A j \in hits : i <= j

\* the header is appended, after a blank separator when the last line is
\* not blank, when no line is the header
WithHeader(ls, headerLine) ==
  IF FindHeader(ls, headerLine) # 0 THEN ls
  ELSE IF Len(ls) > 0 /\ Trim(Last(ls)) # <<>>
       THEN ls \o <<<<>>, headerLine>>
       ELSE Append(ls, headerLine)

\* the loop over entries: the ones not in `existing` are spliced in after
\* the header, in order
RECURSIVE InsertEntries(_, _, _, _, _)
InsertEntries(ls, entries, existing, headerIndex, insertOffset) ==
  IF Len(entries) = 0 THEN ls
  ELSE IF Head(entries) \in existing
       THEN InsertEntries(ls, Tail(entries), existing, headerIndex, insertOffset)
       ELSE InsertEntries(Splice(ls, headerIndex + insertOffset, Head(entries)),
                          Tail(entries), existing \cup {Head(entries)},
                          headerIndex, insertOffset + 1)

\* the content updateGitignore writes for a file read as existingContent
UpdatedContent(existingContent, args) ==
  LET lines == Split(existingContent)
      headerLine == HeaderLineOf(args.sectionHeader)
      existing == {Trim(lines[i]) : i \in 1..Len(lines)}
      withHeader == WithHeader(lines, headerLine)
      headerIndex == IF FindHeader(lines, headerLine) # 0
                     THEN FindHeader(lines, headerLine)
                     ELSE Len(withHeader)
      updated == Join(InsertEntries(withHeader, EntriesOf(args), existing,
                                    headerIndex, 0))
  IN IF EndsWithNL(updated) THEN updated ELSE Append(updated, NL)

\* a file is [exists, content]; a missing file reads as ""
NoFile == [exists |-> FALSE, content |-> <<>>]

FileOf(content) == [exists |-> TRUE, content |-> content]

ReadOrEmpty(file) == IF file.exists THEN file.content ELSE <<>>

\* updateGitignore without the early return of lines 23-25
updateGitignore_NoEarlyReturn(file, args) ==
  FileOf(UpdatedContent(ReadOrEmpty(file), args))

\* lines 23-25: no entries, no write; otherwise the file is (over)written
updateGitignore(file, args) ==
  IF Len(EntriesOf(args)) = 0 THEN file
  ELSE FileOf(UpdatedContent(ReadOrEmpty(file), args))

(***************************************************************************)
(* Paths.  A path segment is a sequence of tokens ("." is the dot          *)
(* character, any other token a run of name characters), a path a sequence *)
(* of segments below the project root (repoRoot).                          *)
(***************************************************************************)
DOT == "."

IsPrefix(p, q) == Len(p) <= Len(q) /\ SubSeq(q, 1, Len(p)) = p

\* path.resolve(root, segment) for a single segment: "." and ".." are
\* normalised away
Resolve(root, segment) ==
  IF segment = <<DOT>> THEN root
  ELSE IF segment = <<DOT, DOT>>
       THEN (IF Len(root) > 0 THEN Front(root) ELSE root)
       ELSE Append(root, segment)

\* path.relative(root, resolved) as a string (a token sequence), for a
\* resolved path that is root, its parent, or a child of root
Relative(root, resolved) ==
  IF resolved = root THEN <<>>
  ELSE IF IsPrefix(root, resolved) THEN resolved[Len(resolved)]
  ELSE <<DOT, DOT>>

\* relative.startsWith("..")
StartsWithDotDot(rel) == Len(rel) >= 2 /\ rel[1] = DOT /\ rel[2] = DOT

\* a resolveInside that lets every path through
Escapes_Never(root, segment) == FALSE

\* resolveInside throws "Resolved path escapes root" (cli.ts)
Escapes(root, segment) ==
  StartsWithDotDot(Relative(root, Resolve(root, segment)))

resolveInside(root, segment) == Resolve(root, segment)

\* toPosix(path.relative(repoRoot, p)) with a trailing slash; <<>> is the
\* undefined result for the project root itself
RECURSIVE PosixString(_)
PosixString(p) ==
  IF Len(p) = 0 THEN <<>>
  ELSE IF Len(p) = 1 THEN p[1]
  ELSE p[1] \o <<"/">> \o PosixString(Tail(p))

toGitignoreDirEntry(targetDir) ==
  IF Len(targetDir) = 0 THEN <<>>
  ELSE <<PosixString(targetDir) \o <<"/">>>>

(***************************************************************************)
(* JavaScript numbers, as far as the concurrency setting needs them:       *)
(* undefined, NaN, Infinity, an integer v, or the fraction v + 1/2.        *)
(***************************************************************************)
Undefined == [kind |-> "undefined", v |-> 0]
NaN == [kind |-> "NaN", v |-> 0]
Infinity == [kind |-> "Infinity", v |-> 0]
Int_(n) == [kind |-> "int", v |-> n]
Frac(n) == [kind |-> "frac", v |-> n]

IsFinite(x) == x.kind \in {"int", "frac"}

IsPositive(x) ==
  \/ x.kind = "Infinity"
  \/ x.kind = "int" /\ x.v > 0
  \/ x.kind = "frac" /\ x.v >= 0

DefaultConcurrency == 2

\* options.concurrency ?? config.concurrency ?? 2
concurrencyInput(opts, cfg) ==
  IF opts.concurrency # Undefined THEN opts.concurrency
  ELSE IF cfg.concurrency # Undefined THEN cfg.concurrency
  ELSE Int_(DefaultConcurrency)

\* Number.isFinite(parsedConcurrency) && parsedConcurrency > 0 ? ... : 2
concurrencyOf(opts, cfg) ==
  IF IsFinite(concurrencyInput(opts, cfg)) /\ IsPositive(concurrencyInput(opts, cfg))
  THEN concurrencyInput(opts, cfg)
  ELSE Int_(DefaultConcurrency)

\* pLimit(concurrency) accepts a positive integer (or Infinity) and throws
\* a TypeError for anything else
pLimitAccepts(c) == c.kind \in {"int", "Infinity"} /\ IsPositive(c)

(***************************************************************************)
(* The configurations and options a run is started with.                   *)
(***************************************************************************)
Seg(t) == <<t>>

NameA == Seg("a")
NameB == Seg("b")
NameDot == <<DOT>>
NameDotDot == <<DOT, DOT>>
NameIndices == Seg("indices")
NameDotsA == <<DOT, DOT, "a">>

\* names the pattern /^[A-Za-z0-9._-]+$/ accepts
RepoPool ==
  { [name |-> NameA, preprocess |-> FALSE],
    [name |-> NameB, preprocess |-> TRUE],
    [name |-> NameDot, preprocess |-> FALSE],
    [name |-> NameDotDot, preprocess |-> FALSE],
    [name |-> NameIndices, preprocess |-> FALSE] }

SeqsUpTo(S, n) == UNION {[1..k -> S] : k \in 0..n}

\* repoNamePattern /^[A-Za-z0-9._-]+$/: one or more characters, each a
\* letter, a digit, ".", "_" or "-"; "/" and " " are the other characters
\* of the model
NameChars == {"a", "b", "c", "indices", DOT}

repoNameOk(name) ==
  Len(name) >= 1 /\ \A i \in 1..Len(name) : name[i] \in NameChars

\* configSchema.safeParse: repos is a non-empty array of repos whose names
\* match the pattern, concurrency is absent or a positive integer
configSchemaOk(cfg) ==
  /\ Len(cfg.repos) >= 1
  /\ \A i \in 1..Len(cfg.repos) : repoNameOk(cfg.repos[i].name)
  /\ Len(cfg.docsDir) >= 1
  /\ Len(cfg.indicesDir) >= 1
  /\ Len(cfg.gitignore.sectionHeader) >= 1
  /\ \/ cfg.concurrency = Undefined
     \/ cfg.concurrency.kind = "int" /\ cfg.concurrency.v > 0

\* repos lists that the schema rejects: a name with a "/", an empty name,
\* a name with a space, and no repos at all
InvalidRepoLists ==
  { <<[name |-> <<"a", "/", "b">>, preprocess |-> FALSE]>>,
    <<[name |-> NameA, preprocess |-> FALSE], [name |-> <<>>, preprocess |-> FALSE]>>,
    <<[name |-> <<"a", SP>>, preprocess |-> TRUE]>>,
    <<>> }

COMMA == ","

\* only.split(",")
RECURSIVE SplitOnComma(_, _, _)
SplitOnComma(s, i, cur) ==
  IF i > Len(s) THEN <<cur>>
  ELSE IF s[i] = COMMA THEN <<cur>> \o SplitOnComma(s, i + 1, <<>>)
  ELSE SplitOnComma(s, i + 1, Append(cur, s[i]))

\* .map((name) => name.trim()).filter(Boolean)
RECURSIVE TrimAndDropEmpty(_)
TrimAndDropEmpty(items) ==
  IF Len(items) = 0 THEN <<>>
  ELSE IF Trim(Head(items)) = <<>> THEN TrimAndDropEmpty(Tail(items))
  ELSE <<Trim(Head(items))>> \o TrimAndDropEmpty(Tail(items))

\* parseOnly: undefined and "" give no names
parseOnly(only) ==
  IF Len(only) = 0 THEN <<>> ELSE TrimAndDropEmpty(SplitOnComma(only, 1, <<>>))

\* the selection without the filter
FilterRepos_All(rs, onlyNames) == rs

\* lines 177-181: with names given, the repos whose name is one of them
FilterRepos(rs, onlyNames) ==
  IF Len(onlyNames) = 0 THEN rs
  ELSE SelectSeq(rs, LAMBDA rc :
                       rc.name \in {onlyNames[i] : i \in 1..Len(onlyNames)})

\* values of --only: absent, one name, two names with blanks around them,
\* an unknown name, separators alone, a known and an unknown name
OnlyPool ==
  { <<>>, <<"a">>, <<SP, "b", SP, COMMA, COMMA, "a">>, <<"c">>, <<COMMA, SP>>,
    <<"c", COMMA, "b">> }

\* repositories with plain names
PlainRepos == {rc \in RepoPool : rc.name \in {NameA, NameB}}

\* the repos lists of the model: any repository first, plain ones after it
\* (among them a second repository of the same name)
RepoLists ==
  {l \in SeqsUpTo(RepoPool, MaxRepos) :
     Len(l) >= 1 /\ \A i \in 2..Len(l) : l[i] \in PlainRepos}

\* one repository whose name starts with two dots ("..a")
DottedRepoLists == {<<[name |-> NameDotsA, preprocess |-> FALSE]>>}

DocsDir == <<Seg("documentation")>>

IndicesDirs == {<<Seg("documentation"), Seg("indices")>>, <<Seg("indices")>>}

\* defaultGitignore with the section header "H"
DefaultGitignore ==
  [addDocsDir |-> TRUE, addDocsSubDirs |-> FALSE, addIndexFiles |-> FALSE,
   sectionHeader |-> <<"H">>]

GitignoreConfigs ==
  { [addDocsDir |-> TRUE, addDocsSubDirs |-> FALSE, addIndexFiles |-> FALSE,
     sectionHeader |-> <<"H">>],
    [addDocsDir |-> FALSE, addDocsSubDirs |-> TRUE, addIndexFiles |-> TRUE,
     sectionHeader |-> <<"H">>],
    [addDocsDir |-> FALSE, addDocsSubDirs |-> FALSE, addIndexFiles |-> FALSE,
     sectionHeader |-> <<"H">>] }

\* concurrency: z.number().int().positive().optional()
ConfigConcurrencies == {Undefined, Int_(1)}

OptionConcurrencies ==
  {Undefined, NaN, Infinity, Int_(0), Int_(1), Int_(MaxRepos + 1), Frac(1)}

Configs ==
  [repos : RepoLists \cup InvalidRepoLists \cup DottedRepoLists, docsDir : {DocsDir}, indicesDir : IndicesDirs,
   gitignore : GitignoreConfigs, concurrency : ConfigConcurrencies]

Options == [concurrency : OptionConcurrencies, only : OnlyPool]

\* <<options.concurrency, config.concurrency>>
ConcurrencyCases ==
  { <<Undefined, Int_(1)>>, <<NaN, Int_(1)>>, <<Infinity, Undefined>>,
    <<Int_(0), Int_(1)>>, <<Int_(1), Undefined>>,
    <<Int_(MaxRepos + 1), Int_(1)>>, <<Frac(1), Undefined>> }

BaseRepos ==
  <<[name |-> NameA, preprocess |-> FALSE], [name |-> NameB, preprocess |-> TRUE]>>

\* the runs of the model vary the repositories and the directory layout
\* under the default settings, or the concurrency and gitignore settings
\* for two plain repositories, or the --only list for two plain
\* repositories
Scenario(cfg, opts) ==
  \/ /\ cfg.gitignore = DefaultGitignore
     /\ cfg.concurrency = Undefined
     /\ opts.concurrency = Undefined
     /\ opts.only = <<>>
  \/ /\ cfg.repos = BaseRepos
     /\ cfg.indicesDir = <<Seg("documentation"), Seg("indices")>>
     /\ opts.only = <<>>
     /\ \/ /\ cfg.gitignore = DefaultGitignore
           /\ <<opts.concurrency, cfg.concurrency>> \in ConcurrencyCases
        \/ cfg.concurrency = Undefined /\ opts.concurrency = Undefined
  \/ /\ cfg.repos = BaseRepos
     /\ cfg.indicesDir = <<Seg("documentation"), Seg("indices")>>
     /\ cfg.gitignore = DefaultGitignore
     /\ cfg.concurrency = Undefined
     /\ opts.concurrency = Undefined

FileNames == <<"1.md", "2.md", "3.md">>

Files == 1..MaxFiles

FileSeg(i) == Seg(FileNames[i])

StaleSeg == Seg("old.md")

IndexSuffix == "-index.md"

\* `let tree` before the scan has assigned it
Unscanned == {0}

(***************************************************************************)
(* State.                                                                  *)
(***************************************************************************)
VARIABLES
  config,      \* the loaded configuration
  options,     \* GenerateOptions
  mainPc,      \* where generateDocs stands
  raiseReason, \* why generateDocs raised ("" while it has not)
  limitN,      \* the pool size handed to pLimit (0 before)
  taskPc,      \* per repository task: where its async function stands
  tree,        \* per task: the scan result (file numbers)
  toCopy,      \* per task: files copyDocs has still to copy
  ws,          \* tasks whose temporary workspace (tempDir) exists
  started, completed, succeeded, failed,  \* the counters of generateDocs
  failures,    \* the failures list
  summary,     \* the GenerateSummary returned (NoSummary before)
  outcome,     \* per task: the counters it has incremented, in order
  fsFiles,     \* files below the project root: path -> [by]
  fsDirs,      \* directories below the project root
  giState,     \* the updateGitignore call of the run
  giCalls,     \* number of updateGitignore calls made
  giFile,      \* the .gitignore file
  giInit,      \* the .gitignore file before the first call
  giLog,       \* the arguments of the calls made so far
  coStart,     \* files and directories of the checkout before the run
  pre,         \* runHtmlPreprocess: the preprocess directive
  coFiles,     \* files of the checkout: absolute path -> [kind, page, md, by]
  coDirs,      \* directories of the checkout
  htmlPc,      \* where runHtmlPreprocess stands
  htmlFiles,   \* the collected HTML files not yet converted
  written,     \* the counter `written`
  htmlError,   \* the message of the error runHtmlPreprocess threw
  scanMerge    \* a call of mergeScanConfig: [base, overrides, result]

htmlVars == <<coStart, pre, coFiles, coDirs, htmlPc, htmlFiles, written, htmlError>>

auxVars == <<htmlVars, scanMerge>>

vars ==
  <<auxVars, summary, config, options, mainPc, raiseReason, limitN, taskPc, tree, toCopy, ws,
    started, completed, succeeded, failed, failures, outcome, fsFiles, fsDirs,
    giState, giCalls, giFile, giInit, giLog>>

orchVars ==
  <<summary, config, options, mainPc, raiseReason, limitN, taskPc, tree, toCopy, ws,
    started, completed, succeeded, failed, failures, outcome, fsFiles, fsDirs,
    giState>>

\* lines 175-181: the repos selected by --only
repos == FilterRepos(config.repos, parseOnly(options.only))

Repos == 1..Len(repos)

docsRoot == config.docsDir

indicesRoot == config.indicesDir

\* resolveInside(docsRoot, repo.name)
outputRepoDir(r) == resolveInside(docsRoot, repos[r].name)

\* resolveInside(indicesRoot, `${repo.name}-index.md`)
IndexFileName(r) == Append(repos[r].name, IndexSuffix)

indexFilePath(r) == resolveInside(indicesRoot, IndexFileName(r))

(***************************************************************************)
(* The file system below the project root.                                 *)
(***************************************************************************)
Prefixes(p) == {SubSeq(p, 1, k) : k \in 1..Len(p)}

FilesUnder(files, p) == {q \in DOMAIN files : IsPrefix(p, q)}

\* fs.rm(p, { recursive: true, force: true })
RmFiles(files, p) == [q \in DOMAIN files \ FilesUnder(files, p) |-> files[q]]

RmDirs(dirs, p) == {d \in dirs : ~IsPrefix(p, d)}

\* fs.mkdir(p, { recursive: true }) fails when a file is in the way
MkdirBlocked(files, p) == \E q \in Prefixes(p) : q \in DOMAIN files

Mkdir(dirs, p) == dirs \cup Prefixes(p)

\* fs.writeFile / fs.copyFile fail when the parent directory is missing
\* or the target is a directory
WriteBlocked(dirs, p) == Front(p) \notin dirs \/ p \in dirs

Write(files, p, tag) ==
  [q \in DOMAIN files \cup {p} |-> IF q = p THEN tag ELSE files[q]]

\* what an earlier run left behind: every repository's output directory
\* with a file of that run, and its index file
StaleDirs(cfg) ==
  {<<>>} \cup Prefixes(cfg.docsDir) \cup Prefixes(cfg.indicesDir)
  \cup UNION {Prefixes(Resolve(cfg.docsDir, cfg.repos[r].name)) :
              r \in {x \in 1..Len(cfg.repos) :
                       ~Escapes(cfg.docsDir, cfg.repos[x].name)}}

StalePaths(cfg) ==
  UNION {{Append(Resolve(cfg.docsDir, cfg.repos[r].name), StaleSeg),
          Append(cfg.indicesDir, Append(cfg.repos[r].name, IndexSuffix))} :
         r \in {x \in 1..Len(cfg.repos) :
                  ~Escapes(cfg.docsDir, cfg.repos[x].name)}}

StaleFiles(cfg) == [q \in StalePaths(cfg) |-> [by |-> 0]]

NoSummary == [total |-> 0, succeeded |-> 0, failed |-> 0, failures |-> <<>>]

\* the value of htmlVars while no HTML preprocessing is modelled
NoPre == [workDir |-> <<>>, outputDir |-> <<>>, selector |-> <<>>, rewriteLinks |-> TRUE]

HtmlIdle ==
  /\ coStart = [files |-> <<>>, dirs |-> {}]
  /\ pre = NoPre
  /\ coFiles = <<>>
  /\ coDirs = {}
  /\ htmlPc = "idle"
  /\ htmlFiles = <<>>
  /\ written = 0
  /\ htmlError = ""

\* a ScanConfig of the model, and the value of scanMerge while no call of
\* mergeScanConfig is modelled
NoScan ==
  [includeMd |-> TRUE, includeMdx |-> TRUE, includeHiddenDirs |-> FALSE,
   excludeDirs |-> <<>>]

NoMerge == [base |-> NoScan, overrides |-> <<>>, result |-> <<>>]

(***************************************************************************)
(* generateDocs: the main flow.                                            *)
(***************************************************************************)
Init ==
  /\ config \in Configs
  /\ options \in Options
  /\ Scenario(config, options)
  /\ mainPc = "load"
  /\ raiseReason = ""
  /\ limitN = 0
  /\ taskPc = [r \in Repos |-> "none"]
  /\ tree = [r \in Repos |-> Unscanned]
  /\ toCopy = [r \in Repos |-> {}]
  /\ ws = {}
  /\ started = 0
  /\ completed = 0
  /\ succeeded = 0
  /\ failed = 0
  /\ failures = <<>>
  /\ summary = NoSummary
  /\ outcome = [r \in Repos |-> <<>>]
  /\ fsFiles = StaleFiles(config)
  /\ fsDirs = StaleDirs(config)
  /\ giState = "idle"
  /\ giCalls = 0
  /\ giFile = NoFile
  /\ giInit = NoFile
  /\ giLog = <<>>
  /\ HtmlIdle
  /\ scanMerge = NoMerge

\* line 174, config.ts lines 127-130: the configuration passes the schema
LoadConfigOk ==
  /\ mainPc = "load"
  /\ configSchemaOk(config)
  /\ mainPc' = "select"
  /\ UNCHANGED <<auxVars, summary, config, options, raiseReason, limitN, taskPc, tree, toCopy, ws,
                 started, completed, succeeded, failed, failures, outcome,
                 fsFiles, fsDirs, giState, giCalls, giFile, giInit, giLog>>

\* config.ts line 129: "Invalid config"
LoadConfigFail ==
  /\ mainPc = "load"
  /\ ~configSchemaOk(config)
  /\ mainPc' = "raised"
  /\ raiseReason' = "config"
  /\ UNCHANGED <<auxVars, summary, config, options, limitN, taskPc, tree, toCopy, ws,
                 started, completed, succeeded, failed, failures, outcome,
                 fsFiles, fsDirs, giState, giCalls, giFile, giInit, giLog>>

\* lines 175-185: "No repos matched the provided filter."
SelectRepos ==
  /\ mainPc = "select"
  /\ IF Len(repos) = 0
     THEN mainPc' = "raised" /\ raiseReason' = "only"
     ELSE mainPc' = "start" /\ UNCHANGED raiseReason
  /\ UNCHANGED <<auxVars, summary, config, options, limitN, taskPc, tree, toCopy, ws,
                 started, completed, succeeded, failed, failures, outcome,
                 fsFiles, fsDirs, giState, giCalls, giFile, giInit, giLog>>

\* lines 187-193: the pool size is resolved and pLimit is created
Configure ==
  /\ mainPc = "start"
  /\ IF pLimitAccepts(concurrencyOf(options, config))
     THEN /\ limitN' = concurrencyOf(options, config).v
          /\ mainPc' = "mkRoots"
          /\ UNCHANGED raiseReason
     ELSE /\ mainPc' = "raised"
          /\ raiseReason' = "pLimit"
          /\ UNCHANGED limitN
  /\ UNCHANGED <<auxVars, summary, config, options, taskPc, tree, toCopy, ws, started, completed,
                 succeeded, failed, failures, outcome, fsFiles, fsDirs,
                 giState, giCalls, giFile, giInit, giLog>>

\* lines 195-198: the docs root and the indices root are created
MkRootsOk ==
  /\ mainPc = "mkRoots"
  /\ ~MkdirBlocked(fsFiles, docsRoot)
  /\ ~MkdirBlocked(fsFiles, indicesRoot)
  /\ fsDirs' = Mkdir(Mkdir(fsDirs, docsRoot), indicesRoot)
  /\ mainPc' = "sync"
  /\ UNCHANGED <<auxVars, summary, config, options, raiseReason, limitN, taskPc, tree, toCopy, ws,
                 started, completed, succeeded, failed, failures, outcome,
                 fsFiles, giState, giCalls, giFile, giInit, giLog>>

MkRootsFail ==
  /\ mainPc = "mkRoots"
  /\ mainPc' = "raised"
  /\ raiseReason' = "mkdir"
  /\ UNCHANGED <<auxVars, summary, config, options, limitN, taskPc, tree, toCopy, ws,
                 started, completed, succeeded, failed, failures, outcome,
                 fsFiles, fsDirs, giState, giCalls, giFile, giInit, giLog>>

\* repos.map((repo) => toGitignoreDirEntry(repoRoot, path.join(docsRoot,
\* repo.name))).filter(Boolean)
RECURSIVE SubDirEntries(_, _)
SubDirEntries(cfg, k) ==
  IF k > Len(cfg.repos) THEN <<>>
  ELSE toGitignoreDirEntry(Resolve(cfg.docsDir, cfg.repos[k].name))
       \o SubDirEntries(cfg, k + 1)

\* lines 216-226 and the arguments of the call at lines 229-235
GitignoreArgs(cfg) ==
  [docsEntry |-> IF cfg.gitignore.addDocsDir
                 THEN toGitignoreDirEntry(cfg.docsDir) ELSE <<>>,
   docsSubDirEntries |-> IF cfg.gitignore.addDocsSubDirs
                         THEN SubDirEntries(cfg, 1) ELSE <<>>,
   indexEntry |-> IF cfg.gitignore.addIndexFiles
                  THEN toGitignoreDirEntry(cfg.indicesDir) ELSE <<>>,
   sectionHeader |-> cfg.gitignore.sectionHeader]

\* docsIgnoreEntry || docsSubDirEntries.length > 0 || indexIgnoreEntry
GitignoreWanted(cfg) ==
  \/ GitignoreArgs(cfg).docsEntry # <<>>
  \/ Len(GitignoreArgs(cfg).docsSubDirEntries) > 0
  \/ GitignoreArgs(cfg).indexEntry # <<>>

\* StartGitignore without the call
StartGitignore_Skipped ==
  /\ mainPc = "sync"
  /\ mainPc' = "createTasks"
  /\ UNCHANGED <<auxVars, summary, config, options, raiseReason, limitN, taskPc, tree, toCopy, ws,
                 started, completed, succeeded, failed, failures, outcome,
                 fsFiles, fsDirs, giState, giCalls, giFile, giInit, giLog>>

\* lines 215-240: updateGitignore is called; it runs up to its first await
\* (the read of .gitignore) and its promise is kept in gitignoreQueue
StartGitignore ==
  /\ mainPc = "sync"
  /\ IF GitignoreWanted(config)
     THEN /\ giState' = "reading"
          /\ giCalls' = giCalls + 1
          /\ giLog' = Append(giLog, GitignoreArgs(config))
     ELSE UNCHANGED <<giState, giCalls, giLog>>
  /\ mainPc' = "createTasks"
  /\ UNCHANGED <<auxVars, summary, config, options, raiseReason, limitN, taskPc, tree, toCopy, ws,
                 started, completed, succeeded, failed, failures, outcome,
                 fsFiles, fsDirs, giFile, giInit>>

\* lines 249-342: repos.map((repo) => limit(async () => ...))
CreateTasks ==
  /\ mainPc = "createTasks"
  /\ taskPc' = [r \in Repos |-> "queued"]
  /\ mainPc' = "awaitTasks"
  /\ UNCHANGED <<auxVars, summary, config, options, raiseReason, limitN, tree, toCopy, ws,
                 started, completed, succeeded, failed, failures, outcome,
                 fsFiles, fsDirs, giState, giCalls, giFile, giInit, giLog>>

\* line 344: Promise.all(tasks) is fulfilled when every task is
AllSettled ==
  /\ mainPc = "awaitTasks"
  /\ \A r \in Repos : taskPc[r] = "done"
  /\ mainPc' = "awaitGitignore"
  /\ UNCHANGED <<auxVars, summary, config, options, raiseReason, limitN, taskPc, tree, toCopy, ws,
                 started, completed, succeeded, failed, failures, outcome,
                 fsFiles, fsDirs, giState, giCalls, giFile, giInit, giLog>>

RejectedPcs == {"rejectedMkdtemp", "rejectedRm"}

\* line 344: Promise.all(tasks) rejects as soon as one task rejects, and
\* generateDocs raises
RaiseOnReject ==
  /\ mainPc = "awaitTasks"
  /\ \E r \in Repos : taskPc[r] \in RejectedPcs
  /\ mainPc' = "raised"
  /\ raiseReason' = "task"
  /\ UNCHANGED <<auxVars, summary, config, options, limitN, taskPc, tree, toCopy, ws,
                 started, completed, succeeded, failed, failures, outcome,
                 fsFiles, fsDirs, giState, giCalls, giFile, giInit, giLog>>

\* lines 345-356: await gitignoreQueue, then the summary is returned
Return ==
  /\ mainPc = "awaitGitignore"
  /\ giState \in {"idle", "ok", "failed"}
  /\ mainPc' = "returned"
  /\ summary' = [total |-> Len(repos), succeeded |-> succeeded,
                 failed |-> failed, failures |-> failures]
  /\ UNCHANGED <<auxVars, config, options, raiseReason, limitN, taskPc, tree, toCopy, ws,
                 started, completed, succeeded, failed, failures, outcome,
                 fsFiles, fsDirs, giState, giCalls, giFile, giInit, giLog>>

(***************************************************************************)
(* The updateGitignore call of the run.                                    *)
(***************************************************************************)
SyncDone == mainPc \in {"awaitTasks", "awaitGitignore", "raised", "returned"}

\* gitignore.ts lines 12-14: the read settles (an error reads as "")
GitignoreRead ==
  /\ giState = "reading"
  /\ SyncDone
  /\ giState' = "writing"
  /\ UNCHANGED <<auxVars, summary, config, options, mainPc, raiseReason, limitN, taskPc, tree,
                 toCopy, ws, started, completed, succeeded, failed, failures,
                 outcome, fsFiles, fsDirs, giCalls, giFile, giInit, giLog>>

\* gitignore.ts line 49: the write succeeds
GitignoreWriteOk ==
  /\ giState = "writing"
  /\ giFile' = updateGitignore(giFile, Last(giLog))
  /\ giState' = "ok"
  /\ UNCHANGED <<auxVars, summary, config, options, mainPc, raiseReason, limitN, taskPc, tree,
                 toCopy, ws, started, completed, succeeded, failed, failures,
                 outcome, fsFiles, fsDirs, giCalls, giInit, giLog>>

\* GitignoreWriteFail without the .catch of cli.ts lines 235-239
GitignoreWriteFail_Uncaught ==
  /\ giState = "writing"
  /\ giState' = "failed"
  /\ mainPc' = "raised"
  /\ raiseReason' = "gitignore"
  /\ UNCHANGED <<auxVars, summary, config, options, limitN, taskPc, tree,
                 toCopy, ws, started, completed, succeeded, failed, failures,
                 outcome, fsFiles, fsDirs, giCalls, giFile, giInit, giLog>>

\* gitignore.ts line 49 fails; cli.ts lines 235-239 catch it and warn
GitignoreWriteFail ==
  /\ giState = "writing"
  /\ giState' = "failed"
  /\ UNCHANGED <<auxVars, summary, config, options, mainPc, raiseReason, limitN, taskPc, tree,
                 toCopy, ws, started, completed, succeeded, failed, failures,
                 outcome, fsFiles, fsDirs, giCalls, giFile, giInit, giLog>>

(***************************************************************************)
(* One repository task: the async function handed to limit().              *)
(***************************************************************************)
RunningPcs ==
  {"mkdtemp", "checkout", "preprocess", "scan", "rmOut", "mkdirOut", "rescan",
   "copyMkdir", "copy", "idxMkdir", "idxWrite", "cleanup"}

\* steps inside the try block that await an external call
AwaitingPcs ==
  {"checkout", "preprocess", "scan", "rmOut", "mkdirOut", "rescan",
   "copyMkdir", "copy", "idxMkdir", "idxWrite"}

Active == {r \in Repos : taskPc[r] \in RunningPcs}

Min(S) == CHOOSE x \in S : \A y \in S : x <= y

\* StartTask without the pool's limit
StartTask_Unlimited(r) ==
  /\ taskPc[r] = "queued"
  /\ started' = started + 1
  /\ taskPc' = [taskPc EXCEPT ![r] = "mkdtemp"]
  /\ UNCHANGED <<auxVars, summary, config, options, mainPc, raiseReason, limitN, tree, toCopy, ws,
                 completed, succeeded, failed, failures, outcome,
                 fsFiles, fsDirs, giState, giCalls, giFile, giInit, giLog>>

\* p-limit runs the queued functions in order while fewer than
\* `concurrency` are running; lines 251-254 run up to the mkdtemp await
StartTask(r) ==
  /\ taskPc[r] = "queued"
  /\ \A q \in Repos : q < r => taskPc[q] # "queued"
  /\ Cardinality(Active) < limitN
  /\ started' = started + 1
  /\ taskPc' = [taskPc EXCEPT ![r] = "mkdtemp"]
  /\ UNCHANGED <<auxVars, summary, config, options, mainPc, raiseReason, limitN, tree, toCopy, ws,
                 completed, succeeded, failed, failures, outcome,
                 fsFiles, fsDirs, giState, giCalls, giFile, giInit, giLog>>

\* line 254: the temporary workspace is created
MkdtempOk(r) ==
  /\ taskPc[r] = "mkdtemp"
  /\ ws' = ws \cup {r}
  /\ taskPc' = [taskPc EXCEPT ![r] = "checkout"]
  /\ UNCHANGED <<auxVars, summary, config, options, mainPc, raiseReason, limitN, tree, toCopy,
                 started, completed, succeeded, failed, failures, outcome,
                 fsFiles, fsDirs, giState, giCalls, giFile, giInit, giLog>>

\* line 254 is outside the try block: the task's promise rejects
MkdtempFail(r) ==
  /\ taskPc[r] = "mkdtemp"
  /\ taskPc' = [taskPc EXCEPT ![r] = "rejectedMkdtemp"]
  /\ UNCHANGED <<auxVars, summary, config, options, mainPc, raiseReason, limitN, tree, toCopy, ws,
                 started, completed, succeeded, failed, failures, outcome,
                 fsFiles, fsDirs, giState, giCalls, giFile, giInit, giLog>>

\* lines 331-338: catch counts the failure, finally counts the completion
\* and starts the removal of the workspace
Caught(r, reason) ==
  /\ failed' = failed + 1
  /\ failures' = Append(failures, [name |-> repos[r].name, error |-> reason])
  /\ outcome' = [outcome EXCEPT ![r] = Append(@, "failed")]
  /\ completed' = completed + 1
  /\ taskPc' = [taskPc EXCEPT ![r] = "cleanup"]
  /\ UNCHANGED succeeded

\* the try block goes on to its next await
Goto(r, pc) ==
  /\ taskPc' = [taskPc EXCEPT ![r] = pc]
  /\ UNCHANGED <<completed, succeeded, failed, failures, outcome>>

\* the message of an error thrown by an awaited call
ErrorOf(pc) == IF pc \in {"checkout", "preprocess", "scan"} THEN pc ELSE "io"

\* an awaited call of the try block rejects (checkout, preprocess, scan,
\* or a file system call)
StepThrows(r) ==
  /\ taskPc[r] \in AwaitingPcs
  /\ Caught(r, ErrorOf(taskPc[r]))
  /\ UNCHANGED <<auxVars, summary, config, options, mainPc, raiseReason, limitN, tree, toCopy, ws,
                 started, fsFiles, fsDirs, giState, giCalls, giFile, giInit,
                 giLog>>

\* lines 257-262, checkout.ok
CheckoutOk(r) ==
  /\ taskPc[r] = "checkout"
  /\ Goto(r, IF repos[r].preprocess THEN "preprocess" ELSE "scan")
  /\ UNCHANGED <<auxVars, summary, config, options, mainPc, raiseReason, limitN, tree, toCopy, ws,
                 started, fsFiles, fsDirs, giState, giCalls, giFile, giInit,
                 giLog>>

\* CheckoutNotOk without `failed += 1`
CheckoutNotOk_Uncounted(r) ==
  /\ taskPc[r] = "checkout"
  /\ failures' = Append(failures, [name |-> repos[r].name, error |-> "checkout.error"])
  /\ outcome' = [outcome EXCEPT ![r] = Append(@, "failed")]
  /\ completed' = completed + 1
  /\ taskPc' = [taskPc EXCEPT ![r] = "cleanup"]
  /\ UNCHANGED <<auxVars, summary, config, options, mainPc, raiseReason, limitN, tree, toCopy, ws,
                 started, succeeded, failed, fsFiles, fsDirs, giState, giCalls,
                 giFile, giInit, giLog>>

\* CheckoutNotOk with the return placed outside try/finally: the workspace
\* is left behind
CheckoutNotOk_NoFinally(r) ==
  /\ taskPc[r] = "checkout"
  /\ failed' = failed + 1
  /\ failures' = Append(failures, [name |-> repos[r].name, error |-> "checkout.error"])
  /\ outcome' = [outcome EXCEPT ![r] = Append(@, "failed")]
  /\ completed' = completed + 1
  /\ taskPc' = [taskPc EXCEPT ![r] = "done"]
  /\ UNCHANGED <<auxVars, summary, config, options, mainPc, raiseReason, limitN, tree, toCopy, ws,
                 started, succeeded, fsFiles, fsDirs, giState, giCalls, giFile,
                 giInit, giLog>>

\* lines 264-269: the early return, through finally
\* CheckoutNotOk that records the failure and goes on with the scan
CheckoutNotOk_GoesOn(r) ==
  /\ taskPc[r] = "checkout"
  /\ failed' = failed + 1
  /\ failures' = Append(failures, [name |-> repos[r].name, error |-> "checkout.error"])
  /\ outcome' = [outcome EXCEPT ![r] = Append(@, "failed")]
  /\ completed' = completed + 1
  /\ taskPc' = [taskPc EXCEPT ![r] = "scan"]
  /\ UNCHANGED <<auxVars, summary, config, options, mainPc, raiseReason, limitN, tree, toCopy, ws,
                 started, succeeded, fsFiles, fsDirs, giState, giCalls, giFile,
                 giInit, giLog>>

CheckoutNotOk(r) ==
  /\ taskPc[r] = "checkout"
  /\ failed' = failed + 1
  /\ failures' = Append(failures, [name |-> repos[r].name, error |-> "checkout.error"])
  /\ outcome' = [outcome EXCEPT ![r] = Append(@, "failed")]
  /\ completed' = completed + 1
  /\ taskPc' = [taskPc EXCEPT ![r] = "cleanup"]
  /\ UNCHANGED <<auxVars, summary, config, options, mainPc, raiseReason, limitN, tree, toCopy, ws,
                 started, succeeded, fsFiles, fsDirs, giState, giCalls, giFile,
                 giInit, giLog>>

\* line 276: runPreprocess returns the scan root
PreprocessOk(r) ==
  /\ taskPc[r] = "preprocess"
  /\ Goto(r, "scan")
  /\ UNCHANGED <<auxVars, summary, config, options, mainPc, raiseReason, limitN, tree, toCopy, ws,
                 started, fsFiles, fsDirs, giState, giCalls, giFile, giInit,
                 giLog>>

\* ScanOk without the check for an empty tree after a preprocess
ScanOk_EmptyAccepted(r, t) ==
  /\ taskPc[r] = "scan"
  /\ tree' = [tree EXCEPT ![r] = t]
  /\ IF Escapes(docsRoot, repos[r].name)
     THEN Caught(r, "escapes root")
     ELSE Goto(r, "rmOut")
  /\ UNCHANGED <<auxVars, summary, config, options, mainPc, raiseReason, limitN, toCopy, ws,
                 started, fsFiles, fsDirs, giState, giCalls, giFile, giInit,
                 giLog>>

\* lines 277-283 (scanDocs of the preprocess output) and lines 289-290
\* (scanMultiplePaths): the scan returns the tree t; an empty tree after a
\* preprocess throws, and so does an output directory outside the docs root
ScanOk(r, t) ==
  /\ taskPc[r] = "scan"
  /\ tree' = [tree EXCEPT ![r] = t]
  /\ IF repos[r].preprocess /\ t = {}
     THEN Caught(r, "produced no markdown files")
     ELSE IF Escapes(docsRoot, repos[r].name)
          THEN Caught(r, "escapes root")
          ELSE Goto(r, "rmOut")
  /\ UNCHANGED <<auxVars, summary, config, options, mainPc, raiseReason, limitN, toCopy, ws,
                 started, fsFiles, fsDirs, giState, giCalls, giFile, giInit,
                 giLog>>

\* lines 284 and 291: fs.rm(outputRepoDir, { recursive: true, force: true })
RmOut(r) ==
  /\ taskPc[r] = "rmOut"
  /\ fsFiles' = RmFiles(fsFiles, outputRepoDir(r))
  /\ fsDirs' = RmDirs(fsDirs, outputRepoDir(r))
  /\ Goto(r, "mkdirOut")
  /\ UNCHANGED <<auxVars, summary, config, options, mainPc, raiseReason, limitN, tree, toCopy, ws,
                 started, giState, giCalls, giFile, giInit, giLog>>

\* lines 285 and 292: fs.mkdir(outputRepoDir, { recursive: true })
MkdirOut(r) ==
  /\ taskPc[r] = "mkdirOut"
  /\ IF MkdirBlocked(fsFiles, outputRepoDir(r))
     THEN Caught(r, "io") /\ UNCHANGED fsDirs
     ELSE /\ fsDirs' = Mkdir(fsDirs, outputRepoDir(r))
          /\ Goto(r, IF repos[r].preprocess THEN "copyMkdir" ELSE "rescan")
  /\ UNCHANGED <<auxVars, summary, config, options, mainPc, raiseReason, limitN, tree, toCopy, ws,
                 started, fsFiles, giState, giCalls, giFile, giInit, giLog>>

\* line 323: resolveInside(indicesRoot, `${repo.name}-index.md`), reached
\* without an await once the copying is over
ToIndex(r) ==
  IF Escapes(indicesRoot, IndexFileName(r))
  THEN Caught(r, "escapes root")
  ELSE Goto(r, "idxMkdir")

\* lines 295-305: the checkout path is scanned again and stat'ed; nothing
\* is copied for an empty tree
Rescan(r) ==
  /\ taskPc[r] = "rescan"
  /\ IF tree[r] = {} THEN ToIndex(r) ELSE Goto(r, "copyMkdir")
  /\ UNCHANGED <<auxVars, summary, config, options, mainPc, raiseReason, limitN, tree, toCopy, ws,
                 started, fsFiles, fsDirs, giState, giCalls, giFile, giInit,
                 giLog>>

\* copyDocs line 147: fs.mkdir(targetDir, { recursive: true })
CopyMkdir(r) ==
  /\ taskPc[r] = "copyMkdir"
  /\ IF MkdirBlocked(fsFiles, outputRepoDir(r))
     THEN Caught(r, "io") /\ UNCHANGED <<fsDirs, toCopy>>
     ELSE /\ fsDirs' = Mkdir(fsDirs, outputRepoDir(r))
          /\ toCopy' = [toCopy EXCEPT ![r] = tree[r]]
          /\ Goto(r, "copy")
  /\ UNCHANGED <<auxVars, summary, config, options, mainPc, raiseReason, limitN, tree, ws,
                 started, fsFiles, giState, giCalls, giFile, giInit, giLog>>

\* copyDocs lines 149-151: the next file is copied into the output directory
CopyFile(r) ==
  /\ taskPc[r] = "copy"
  /\ LET i == Min(toCopy[r])
         target == Append(outputRepoDir(r), FileSeg(i))
     IN IF WriteBlocked(fsDirs, target)
        THEN Caught(r, "io") /\ UNCHANGED <<fsFiles, toCopy>>
        ELSE /\ fsFiles' = Write(fsFiles, target, [by |-> r])
             /\ toCopy' = [toCopy EXCEPT ![r] = @ \ {i}]
             /\ IF toCopy[r] = {i} THEN ToIndex(r) ELSE Goto(r, "copy")
  /\ UNCHANGED <<auxVars, summary, config, options, mainPc, raiseReason, limitN, tree, ws,
                 started, fsDirs, giState, giCalls, giFile, giInit, giLog>>

\* line 327: fs.mkdir(path.dirname(indexFilePath), { recursive: true })
IdxMkdir(r) ==
  /\ taskPc[r] = "idxMkdir"
  /\ IF MkdirBlocked(fsFiles, Front(indexFilePath(r)))
     THEN Caught(r, "io") /\ UNCHANGED fsDirs
     ELSE /\ fsDirs' = Mkdir(fsDirs, Front(indexFilePath(r)))
          /\ Goto(r, "idxWrite")
  /\ UNCHANGED <<auxVars, summary, config, options, mainPc, raiseReason, limitN, tree, toCopy, ws,
                 started, fsFiles, giState, giCalls, giFile, giInit, giLog>>

\* lines 328-330 and 337-339: the index file is written, the repository is
\* counted as succeeded, and finally starts the removal of the workspace
IdxWrite(r) ==
  /\ taskPc[r] = "idxWrite"
  /\ IF WriteBlocked(fsDirs, indexFilePath(r))
     THEN Caught(r, "io") /\ UNCHANGED fsFiles
     ELSE /\ fsFiles' = Write(fsFiles, indexFilePath(r), [by |-> r])
          /\ succeeded' = succeeded + 1
          /\ outcome' = [outcome EXCEPT ![r] = Append(@, "succeeded")]
          /\ completed' = completed + 1
          /\ taskPc' = [taskPc EXCEPT ![r] = "cleanup"]
          /\ UNCHANGED <<failed, failures>>
  /\ UNCHANGED <<auxVars, summary, config, options, mainPc, raiseReason, limitN, tree, toCopy, ws,
                 started, fsDirs, giState, giCalls, giFile, giInit, giLog>>

\* line 339: fs.rm(tempDir, { recursive: true, force: true }) succeeds and
\* the task's promise is fulfilled
CleanupOk(r) ==
  /\ taskPc[r] = "cleanup"
  /\ ws' = ws \ {r}
  /\ taskPc' = [taskPc EXCEPT ![r] = "done"]
  /\ UNCHANGED <<auxVars, summary, config, options, mainPc, raiseReason, limitN, tree, toCopy,
                 started, completed, succeeded, failed, failures, outcome,
                 fsFiles, fsDirs, giState, giCalls, giFile, giInit, giLog>>

\* line 339 fails inside finally: the task's promise rejects
CleanupFail(r) ==
  /\ taskPc[r] = "cleanup"
  /\ taskPc' = [taskPc EXCEPT ![r] = "rejectedRm"]
  /\ UNCHANGED <<auxVars, summary, config, options, mainPc, raiseReason, limitN, tree, toCopy, ws,
                 started, completed, succeeded, failed, failures, outcome,
                 fsFiles, fsDirs, giState, giCalls, giFile, giInit, giLog>>

Next ==
  \/ LoadConfigOk
  \/ LoadConfigFail
  \/ SelectRepos
  \/ Configure
  \/ MkRootsOk
  \/ MkRootsFail
  \/ StartGitignore
  \/ CreateTasks
  \/ AllSettled
  \/ RaiseOnReject
  \/ Return
  \/ GitignoreRead
  \/ GitignoreWriteOk
  \/ GitignoreWriteFail
  \/ \E r \in Repos : StartTask(r)
  \/ \E r \in Repos : MkdtempOk(r)
  \/ \E r \in Repos : MkdtempFail(r)
  \/ \E r \in Repos : StepThrows(r)
  \/ \E r \in Repos : CheckoutOk(r)
  \/ \E r \in Repos : CheckoutNotOk(r)
  \/ \E r \in Repos : PreprocessOk(r)
  \/ \E r \in Repos : \E t \in SUBSET Files : ScanOk(r, t)
  \/ \E r \in Repos : RmOut(r)
  \/ \E r \in Repos : MkdirOut(r)
  \/ \E r \in Repos : Rescan(r)
  \/ \E r \in Repos : CopyMkdir(r)
  \/ \E r \in Repos : CopyFile(r)
  \/ \E r \in Repos : IdxMkdir(r)
  \/ \E r \in Repos : IdxWrite(r)
  \/ \E r \in Repos : CleanupOk(r)
  \/ \E r \in Repos : CleanupFail(r)

Spec == Init /\ [][Next]_vars

\* every awaited call settles and the pool runs every task it holds: a
\* step that can be taken is taken
SpecFair == Spec /\ WF_vars(Next)

(***************************************************************************)
(* updateGitignore on its own: a .gitignore file of a few lines and a      *)
(* bounded number of calls with arbitrary entries.                         *)
(***************************************************************************)
Opt(S) == {<<>>} \cup {<<e>> : e \in S}

\* entry strings: a plain one, one with a leading space, and ""
EntryPool == {<<"a/">>, <<SP, "a/">>, <<>>}

\* section headers accepted by z.string().min(1)
HeaderPool == {<<"H">>, <<"H", SP>>}

CallArgs ==
  [docsEntry : Opt(EntryPool),
   docsSubDirEntries : SeqsUpTo({<<"b/">>}, MaxSubDirs),
   indexEntry : Opt({<<"a/">>}),
   sectionHeader : HeaderPool]

InitLinePool == {<<>>, <<"a/">>, <<"x">>, HeaderLineOf(<<"H">>)}

InitContents ==
  UNION {{Join(ls), Join(ls) \o <<NL>>} : ls \in SeqsUpTo(InitLinePool, MaxInitLines)}

InitFiles == {NoFile} \cup {FileOf(c) : c \in InitContents}

InitGI ==
  /\ config = CHOOSE c \in Configs : c.repos = BaseRepos
  /\ options = [concurrency |-> Undefined, only |-> <<>>]
  /\ mainPc = "idle"
  /\ raiseReason = ""
  /\ limitN = 0
  /\ taskPc = [r \in 1..Len(config.repos) |-> "none"]
  /\ tree = [r \in 1..Len(config.repos) |-> Unscanned]
  /\ toCopy = [r \in 1..Len(config.repos) |-> {}]
  /\ ws = {}
  /\ started = 0
  /\ completed = 0
  /\ succeeded = 0
  /\ failed = 0
  /\ failures = <<>>
  /\ summary = NoSummary
  /\ outcome = [r \in 1..Len(config.repos) |-> <<>>]
  /\ fsFiles = StaleFiles(config)
  /\ fsDirs = StaleDirs(config)
  /\ giState = "idle"
  /\ giCalls = 0
  /\ giInit \in InitFiles
  /\ giFile = giInit
  /\ giLog = <<>>
  /\ HtmlIdle
  /\ scanMerge = NoMerge

\* one call of updateGitignore(args) that runs to its end
UpdateGitignoreCall(args) ==
  /\ giCalls < MaxCalls
  /\ giFile' = updateGitignore(giFile, args)
  /\ giCalls' = giCalls + 1
  /\ giLog' = Append(giLog, args)
  /\ UNCHANGED <<auxVars, orchVars, giInit>>

NextGI == \E args \in CallArgs : UpdateGitignoreCall(args)

SpecGI == InitGI /\ [][NextGI]_vars

(***************************************************************************)
(* HTML preprocessing (preprocess.ts).                                     *)
(*                                                                         *)
(* An href is a token sequence: "#", "?", "/", ":" and " " are themselves, *)
(* "x" is a run of letters, ".html" and ".HTM" are the extensions as       *)
(* written in the page.                                                    *)
(***************************************************************************)
HASH == "#"
QMARK == "?"
SLASH == "/"
COLON == ":"

\* String.prototype.toLowerCase on the tokens of the model
ToLower(t) == IF t = ".HTM" THEN ".htm" ELSE IF t = ".HTML" THEN ".html" ELSE t

\* tokens that are letters only, and tokens made of [a-zA-Z0-9+.-]
LetterTokens == {"x"}

SchemeTokens == {"x", ".html", ".HTM", ".htm", ".HTML", ".md", DOT}

\* /^[a-zA-Z][a-zA-Z0-9+.-]*:/.test(s)
HasScheme(s) ==
  \E k \in 2..Len(s) :
    /\ s[k] = COLON
    /\ s[1] \in LetterTokens
    /\ \A j \in 2..(k - 1) : s[j] \in SchemeTokens

\* s.indexOf(c), 1-based, 0 for -1
IndexOf(s, c) ==
  LET hits == {i \in 1..Len(s) : s[i] = c}
  IN IF hits = {} THEN 0 ELSE CHOOSE i \in hits : \A j \in hits : i <= j

\* the result of rewriteHref: null, or a string
Null == [null |-> TRUE, value |-> <<>>]

Str(s) == [null |-> FALSE, value |-> s]

\* rewriteHref that does not put the fragment back
rewriteHref_NoHash(href) ==
  LET trimmed == Trim(href)
      hashIndex == IndexOf(trimmed, HASH)
      withoutHash == IF hashIndex > 0 THEN SubSeq(trimmed, 1, hashIndex - 1) ELSE trimmed
      queryIndex == IndexOf(withoutHash, QMARK)
      query == IF queryIndex > 0
               THEN SubSeq(withoutHash, queryIndex, Len(withoutHash)) ELSE <<>>
      pathPart == IF queryIndex > 0
                  THEN SubSeq(withoutHash, 1, queryIndex - 1) ELSE withoutHash
  IN IF Len(trimmed) = 0 \/ Head(trimmed) = HASH THEN Null
     ELSE IF Len(trimmed) >= 2 /\ trimmed[1] = SLASH /\ trimmed[2] = SLASH THEN Null
     ELSE IF HasScheme(trimmed) THEN Null
     ELSE IF Len(pathPart) = 0 THEN Null
     ELSE IF ToLower(Last(pathPart)) \in {".html", ".htm"}
          THEN Str(Front(pathPart) \o <<".md">> \o query)
          ELSE Null

\* rewriteHref, lines 112-139
rewriteHref(href) ==
  LET trimmed == Trim(href)
      hashIndex == IndexOf(trimmed, HASH)
      hash == IF hashIndex > 0 THEN SubSeq(trimmed, hashIndex, Len(trimmed)) ELSE <<>>
      withoutHash == IF hashIndex > 0 THEN SubSeq(trimmed, 1, hashIndex - 1) ELSE trimmed
      queryIndex == IndexOf(withoutHash, QMARK)
      query == IF queryIndex > 0
               THEN SubSeq(withoutHash, queryIndex, Len(withoutHash)) ELSE <<>>
      pathPart == IF queryIndex > 0
                  THEN SubSeq(withoutHash, 1, queryIndex - 1) ELSE withoutHash
  IN IF Len(trimmed) = 0 \/ Head(trimmed) = HASH THEN Null
     ELSE IF Len(trimmed) >= 2 /\ trimmed[1] = SLASH /\ trimmed[2] = SLASH THEN Null
     ELSE IF HasScheme(trimmed) THEN Null
     ELSE IF Len(pathPart) = 0 THEN Null
     ELSE IF ToLower(Last(pathPart)) \in {".html", ".htm"}
          THEN Str(Front(pathPart) \o <<".md">> \o query \o hash)
          ELSE Null

\* lines 240-245: the href attribute of an anchor after the rewriting; an
\* empty href is skipped
RewrittenAttr(href) ==
  IF Len(href) = 0 \/ rewriteHref(href).null THEN href
  ELSE rewriteHref(href).value

(***************************************************************************)
(* A page is the body of an HTML document: its elements in document order, *)
(* each with tag, id, class and parent (0 is body), and one anchor with an *)
(* href inside the element anchorAt (0: directly in body).                 *)
(***************************************************************************)
BodyNode == [tag |-> "body", id |-> "", cls |-> "", parent |-> 0]

\* element k of the page, element 0 being body
NodeOf(page, k) == IF k = 0 THEN BodyNode ELSE page.nodes[k]

\* k is the element a or lies inside it
RECURSIVE Inside(_, _, _)
Inside(page, k, a) ==
  IF k = a THEN TRUE
  ELSE IF k = 0 THEN FALSE
  ELSE Inside(page, page.nodes[k].parent, a)

\* a CSS selector of the model: a tag, "#id" or ".class"
TagSel(t) == [kind |-> "tag", name |-> t]
IdSel(i) == [kind |-> "id", name |-> i]
ClassSel(c) == [kind |-> "class", name |-> c]

Matches(node, sel) ==
  \/ sel.kind = "tag" /\ node.tag = sel.name
  \/ sel.kind = "id" /\ node.id = sel.name
  \/ sel.kind = "class" /\ node.cls = sel.name

\* $(sel).first(): the first matching element in document order, -1 for
\* an empty selection
First(page, sel) ==
  LET hits == {k \in 0..Len(page.nodes) : Matches(NodeOf(page, k), sel)}
  IN IF hits = {} THEN -1 ELSE CHOOSE k \in hits : \A j \in hits : k <= j

\* line 150
candidates ==
  <<TagSel("main"), TagSel("article"), IdSel("content"), ClassSel("content"),
    ClassSel("document"), TagSel("body")>>

\* lines 150-156: the first candidate that matches anything
RECURSIVE FirstCandidate(_, _)
FirstCandidate(page, i) ==
  IF i > Len(candidates) THEN First(page, TagSel("body"))
  ELSE IF First(page, candidates[i]) >= 0 THEN First(page, candidates[i])
  ELSE FirstCandidate(page, i + 1)

\* selectContent that ignores the selector
selectContent_Default(page, selector) == FirstCandidate(page, 1)

\* selectContent, lines 141-157; the selector is a sequence of zero or one
\* selectors (undefined, or "" after the trim of line 199, is <<>>)
selectContent(page, selector) ==
  IF Len(selector) > 0 /\ First(page, selector[1]) >= 0
  THEN First(page, selector[1])
  ELSE FirstCandidate(page, 1)

\* lines 231-250: the Markdown of a page: the elements whose content is in
\* selection.html(), and the hrefs of the anchors in it
markdownOf(page, selector, rewriteLinks) ==
  LET root == selectContent(page, selector)
  IN [root |-> root,
      content |-> {k \in 0..Len(page.nodes) : Inside(page, k, root)},
      hrefs |-> IF Inside(page, page.anchorAt, root)
                THEN <<IF rewriteLinks THEN RewrittenAttr(page.href) ELSE page.href>>
                ELSE <<>>]

(***************************************************************************)
(* runHtmlPreprocess over the files of one checkout.  Paths are absolute:  *)
(* sequences of segments from the file system root.                        *)
(***************************************************************************)
CheckoutRoot == <<Seg("tmp"), Seg("docpup-1")>>

\* path.resolve(root, p) for a relative path p given as its segments
RECURSIVE ResolveAll(_, _)
ResolveAll(root, segs) ==
  IF Len(segs) = 0 THEN root
  ELSE ResolveAll(Resolve(root, Head(segs)), Tail(segs))

\* path.relative(from, to) as a string: "" for the same path, the
\* segments below `from` joined by "/", or a string that starts with ".."
RelativeString(from, to) ==
  IF IsPrefix(from, to) THEN PosixString(SubSeq(to, Len(from) + 1, Len(to)))
  ELSE <<DOT, DOT>>

\* resolveInside of preprocess.ts throws "Resolved path escapes root"
ppEscapes(root, segs) ==
  StartsWithDotDot(RelativeString(root, ResolveAll(root, segs)))

resolvedWorkDir == ResolveAll(CheckoutRoot, pre.workDir)

resolvedOutputDir == ResolveAll(CheckoutRoot, pre.outputDir)

\* shouldSkipDir, lines 163-167
shouldSkipDir(skip, dirPath) ==
  \/ RelativeString(skip, dirPath) = <<>>
  \/ ~StartsWithDotDot(RelativeString(skip, dirPath))

\* path.extname(name).toLowerCase(): the last token of a name of two or
\* more tokens ("" for a name that is an extension only, as ".html")
ExtName(name) == IF Len(name) >= 2 THEN ToLower(Last(name)) ELSE ""

\* collectHtmlFiles that compares the extension as it is written
collectHtmlFiles_CaseSensitive(files, rootDir, skipDir) ==
  {f \in DOMAIN files :
     /\ IsPrefix(rootDir, f)
     /\ Len(f) > Len(rootDir)
     /\ Len(Last(f)) >= 2 /\ Last(Last(f)) \in {".html", ".htm"}
     /\ \A k \in (Len(rootDir) + 1)..(Len(f) - 1) : Head(f[k]) # DOT
     /\ \A k \in Len(rootDir)..(Len(f) - 1) : ~shouldSkipDir(skipDir, SubSeq(f, 1, k))}

\* collectHtmlFiles that walks into the directories whose name starts
\* with "."
collectHtmlFiles_Hidden(files, rootDir, skipDir) ==
  {f \in DOMAIN files :
     /\ IsPrefix(rootDir, f)
     /\ Len(f) > Len(rootDir)
     /\ ExtName(Last(f)) \in {".html", ".htm"}
     /\ \A k \in Len(rootDir)..(Len(f) - 1) : ~shouldSkipDir(skipDir, SubSeq(f, 1, k))}

\* collectHtmlFiles, lines 159-190: the walk from rootDir does not enter
\* the skipped subtree nor directories whose name starts with "."
collectHtmlFiles(files, rootDir, skipDir) ==
  {f \in DOMAIN files :
     /\ IsPrefix(rootDir, f)
     /\ Len(f) > Len(rootDir)
     /\ ExtName(Last(f)) \in {".html", ".htm"}
     /\ \A k \in (Len(rootDir) + 1)..(Len(f) - 1) : Head(f[k]) # DOT
     /\ \A k \in Len(rootDir)..(Len(f) - 1) : ~shouldSkipDir(skipDir, SubSeq(f, 1, k))}

\* the orders in which readdir can hand out the files of S
Orders(S) ==
  {o \in [1..Cardinality(S) -> S] : \A i, j \in 1..Cardinality(S) : o[i] = o[j] => i = j}

\* lines 252-258: the target of a source file
targetPath(filePath) ==
  LET rel == SubSeq(filePath, Len(resolvedWorkDir) + 1, Len(filePath))
  IN resolvedOutputDir \o Front(rel) \o <<Append(Front(Last(rel)), ".md")>>

NoPage == [nodes |-> <<>>, anchorAt |-> 0, href |-> <<>>]

NoMd == [root |-> -1, content |-> {}, hrefs |-> <<>>]

HtmlFile(page) == [kind |-> "html", page |-> page, md |-> NoMd, by |-> 0]

OtherFile == [kind |-> "other", page |-> NoPage, md |-> NoMd, by |-> 0]

MdFile(md) == [kind |-> "md", page |-> NoPage, md |-> md, by |-> 1]

\* the hrefs of the model
HrefTokens == {HASH, QMARK, SLASH, COLON, SP, "x", ".html", ".HTM"}

Hrefs == SeqsUpTo(HrefTokens, MaxHrefLen)

\* the elements and pages of the model
ElementKinds ==
  { [tag |-> "main", id |-> "", cls |-> ""],
    [tag |-> "article", id |-> "", cls |-> ""],
    [tag |-> "div", id |-> "content", cls |-> ""],
    [tag |-> "div", id |-> "", cls |-> "document"],
    [tag |-> "div", id |-> "", cls |-> ""] }

NodePool ==
  {[tag |-> e.tag, id |-> e.id, cls |-> e.cls, parent |-> q] :
     e \in ElementKinds, q \in 0..(MaxNodes - 1)}

\* document order: the parent of an element is the element before it or
\* one of the elements that one is inside of
InDocumentOrder(ns) ==
  \A k \in 1..Len(ns) :
    /\ ns[k].parent < k
    /\ k > 1 => Inside([nodes |-> ns], k - 1, ns[k].parent)

NodeSeqs == {ns \in SeqsUpTo(NodePool, MaxNodes) : InDocumentOrder(ns)}

\* selectors: none, article, one that matches no element, a class
Selectors ==
  {<<>>, <<TagSel("article")>>, <<TagSel("section")>>, <<ClassSel("document")>>}

BaseHref == <<"x", ".html", HASH, "x">>

BasePage ==
  [nodes |-> <<[tag |-> "main", id |-> "", cls |-> "", parent |-> 0]>>,
   anchorAt |-> 1, href |-> BaseHref]

\* the files a checkout can hold: pages of the work directory "docs", one
\* in a hidden directory, one below "docs/out", a Markdown file, a file of
\* an earlier output, and a page outside the checkout
docsP == CheckoutRoot \o <<Seg("docs")>>

FilePool ==
  { docsP \o <<<<"p", ".html">>>>,
    docsP \o <<<<"p", ".HTM">>>>,
    docsP \o <<Seg("sub"), <<"q", ".htm">>>>,
    docsP \o <<<<DOT, "h">>, <<"h", ".html">>>>,
    docsP \o <<Seg("out"), <<"o", ".html">>>>,
    docsP \o <<<<"r", ".md">>>>,
    CheckoutRoot \o <<Seg("docpup-build"), <<"old", ".md">>>>,
    <<Seg("tmp"), Seg("other"), <<"z", ".html">>>> }

Layouts == {S \in SUBSET FilePool : Cardinality(S) <= MaxLayoutFiles}

WorkDirs ==
  { <<Seg("docs")>>, <<<<DOT>>>>, <<Seg("missing")>>, <<<<DOT, DOT>>>>,
    <<Seg("docs"), <<"r", ".md">>>> }

OutputDirs ==
  { <<Seg("docpup-build")>>, <<Seg("docs"), Seg("out")>>, <<Seg("docs")>>,
    <<<<DOT, DOT>>, Seg("other")>> }

BaseLayout == {docsP \o <<<<"p", ".html">>>>}

\* the checkout with the files of S, every page being `page`
CheckoutFiles(S, page) ==
  [f \in S |-> IF ExtName(Last(f)) \in {".html", ".htm"} THEN HtmlFile(page)
               ELSE OtherFile]

CheckoutDirs(S) ==
  Prefixes(docsP) \cup UNION {Prefixes(Front(f)) : f \in S}

\* runs of the model: every href in one page, every page and selector, or
\* every layout of the checkout
InitHtmlCases ==
  \/ \E h \in Hrefs :
       /\ coFiles = CheckoutFiles(BaseLayout, [BasePage EXCEPT !.href = h])
       /\ coDirs = CheckoutDirs(BaseLayout)
       /\ pre = [workDir |-> <<Seg("docs")>>, outputDir |-> <<Seg("docpup-build")>>,
                 selector |-> <<>>, rewriteLinks |-> TRUE]
  \/ \E ns \in NodeSeqs, sel \in Selectors, rw \in BOOLEAN :
       /\ coFiles = CheckoutFiles(BaseLayout,
                      [nodes |-> ns, anchorAt |-> Len(ns), href |-> BaseHref])
       /\ coDirs = CheckoutDirs(BaseLayout)
       /\ pre = [workDir |-> <<Seg("docs")>>, outputDir |-> <<Seg("docpup-build")>>,
                 selector |-> sel, rewriteLinks |-> rw]
  \/ \E S \in Layouts, w \in WorkDirs, o \in OutputDirs :
       /\ coFiles = CheckoutFiles(S, BasePage)
       /\ coDirs = CheckoutDirs(S)
       /\ pre = [workDir |-> w, outputDir |-> o, selector |-> <<>>,
                 rewriteLinks |-> TRUE]

InitHtml ==
  /\ config = CHOOSE c \in Configs : c.repos = BaseRepos
  /\ options = [concurrency |-> Undefined, only |-> <<>>]
  /\ mainPc = "idle"
  /\ raiseReason = ""
  /\ limitN = 0
  /\ taskPc = [r \in 1..Len(config.repos) |-> "none"]
  /\ tree = [r \in 1..Len(config.repos) |-> Unscanned]
  /\ toCopy = [r \in 1..Len(config.repos) |-> {}]
  /\ ws = {}
  /\ started = 0
  /\ completed = 0
  /\ succeeded = 0
  /\ failed = 0
  /\ failures = <<>>
  /\ summary = NoSummary
  /\ outcome = [r \in 1..Len(config.repos) |-> <<>>]
  /\ fsFiles = StaleFiles(config)
  /\ fsDirs = StaleDirs(config)
  /\ giState = "idle"
  /\ giCalls = 0
  /\ giInit = NoFile
  /\ giFile = NoFile
  /\ giLog = <<>>
  /\ InitHtmlCases
  /\ scanMerge = NoMerge
  /\ coStart = [files |-> coFiles, dirs |-> coDirs]
  /\ htmlPc = "resolve"
  /\ htmlFiles = <<>>
  /\ written = 0
  /\ htmlError = ""

restVars == <<orchVars, giCalls, giFile, giInit, giLog, scanMerge>>

\* runHtmlPreprocess throws
HtmlThrow(message) ==
  /\ htmlPc' = "failed"
  /\ htmlError' = message

\* lines 197-203: workDir and outputDir are resolved inside the checkout
HtmlResolve ==
  /\ htmlPc = "resolve"
  /\ IF ppEscapes(CheckoutRoot, pre.workDir) \/ ppEscapes(CheckoutRoot, pre.outputDir)
     THEN HtmlThrow("Resolved path escapes root")
     ELSE htmlPc' = "stat" /\ UNCHANGED htmlError
  /\ UNCHANGED <<coStart, pre, coFiles, coDirs, htmlFiles, written, restVars>>

\* lines 205-208: workDir has to be a directory
HtmlStat ==
  /\ htmlPc = "stat"
  /\ IF resolvedWorkDir \notin coDirs
     THEN HtmlThrow("HTML workDir not found")
     ELSE htmlPc' = "rmOut" /\ UNCHANGED htmlError
  /\ UNCHANGED <<coStart, pre, coFiles, coDirs, htmlFiles, written, restVars>>

\* line 210: fs.rm(resolvedOutputDir, { recursive: true, force: true })
HtmlRmOut ==
  /\ htmlPc = "rmOut"
  /\ coFiles' = RmFiles(coFiles, resolvedOutputDir)
  /\ coDirs' = RmDirs(coDirs, resolvedOutputDir)
  /\ htmlPc' = "mkdirOut"
  /\ UNCHANGED <<coStart, pre, htmlFiles, written, htmlError, restVars>>

\* line 211: fs.mkdir(resolvedOutputDir, { recursive: true })
HtmlMkdirOut ==
  /\ htmlPc = "mkdirOut"
  /\ IF MkdirBlocked(coFiles, resolvedOutputDir)
     THEN HtmlThrow("io") /\ UNCHANGED coDirs
     ELSE /\ coDirs' = Mkdir(coDirs, resolvedOutputDir)
          /\ htmlPc' = "collect"
          /\ UNCHANGED htmlError
  /\ UNCHANGED <<coStart, pre, coFiles, htmlFiles, written, restVars>>

\* lines 213-218: the HTML files are collected; none is an error
HtmlCollect ==
  /\ htmlPc = "collect"
  /\ \E order \in Orders(collectHtmlFiles(coFiles, resolvedWorkDir, resolvedOutputDir)) :
       /\ htmlFiles' = order
       /\ IF Len(order) = 0
          THEN HtmlThrow("produced no markdown files")
          ELSE htmlPc' = "convert" /\ UNCHANGED htmlError
  /\ UNCHANGED <<coStart, pre, coFiles, coDirs, written, restVars>>

\* lines 228-263: the next file is read, converted and written
HtmlConvert ==
  /\ htmlPc = "convert"
  /\ Len(htmlFiles) > 0
  /\ LET filePath == Head(htmlFiles)
         target == targetPath(filePath)
     IN IF MkdirBlocked(coFiles, Front(target)) \/ target \in coDirs
        THEN HtmlThrow("io") /\ UNCHANGED <<coFiles, coDirs, htmlFiles, written>>
        ELSE /\ coDirs' = Mkdir(coDirs, Front(target))
             /\ coFiles' = Write(coFiles, target,
                              MdFile(markdownOf(coFiles[filePath].page, pre.selector,
                                                pre.rewriteLinks)))
             /\ written' = written + 1
             /\ htmlFiles' = Tail(htmlFiles)
             /\ UNCHANGED <<htmlPc, htmlError>>
  /\ UNCHANGED <<coStart, pre, restVars>>

\* lines 265-271: the output directory is returned
HtmlReturn ==
  /\ htmlPc = "convert"
  /\ Len(htmlFiles) = 0
  /\ IF written = 0
     THEN HtmlThrow("produced no markdown files")
     ELSE htmlPc' = "returned" /\ UNCHANGED htmlError
  /\ UNCHANGED <<coStart, pre, coFiles, coDirs, htmlFiles, written, restVars>>

\* an awaited file system call (rm, mkdir, readdir, readFile, writeFile)
\* rejects
HtmlIoError ==
  /\ htmlPc \in {"rmOut", "mkdirOut", "collect", "convert"}
  /\ htmlPc = "convert" => Len(htmlFiles) > 0
  /\ HtmlThrow("io")
  /\ UNCHANGED <<coStart, pre, coFiles, coDirs, htmlFiles, written, restVars>>

NextHtml ==
  \/ HtmlResolve
  \/ HtmlStat
  \/ HtmlRmOut
  \/ HtmlMkdirOut
  \/ HtmlCollect
  \/ HtmlConvert
  \/ HtmlReturn
  \/ HtmlIoError

SpecHtml == InitHtml /\ [][NextHtml]_vars

\* generateDocs and runHtmlPreprocess, each run on its own
SpecAll == (Init \/ InitHtml) /\ [][Next \/ NextHtml]_vars

(***************************************************************************)
(* mergeScanConfig.  The overrides argument and each of its keys is a      *)
(* sequence of length 0 (absent) or 1 (present).                           *)
(***************************************************************************)
\* Array.from(new Set(list)): the elements in the order of their first
\* occurrence
RECURSIVE Dedup(_, _)
Dedup(list, seen) ==
  IF Len(list) = 0 THEN <<>>
  ELSE IF Head(list) \in seen THEN Dedup(Tail(list), seen)
  ELSE <<Head(list)>> \o Dedup(Tail(list), seen \cup {Head(list)})

\* { ...base, ...overrides }[key]
Spread(baseValue, overrideValue) ==
  IF Len(overrideValue) > 0 THEN overrideValue[1] ELSE baseValue

\* mergeScanConfig without the special case of excludeDirs
mergeScanConfig_Replace(base, overrides) ==
  IF Len(overrides) = 0 THEN base
  ELSE [includeMd |-> Spread(base.includeMd, overrides[1].includeMd),
        includeMdx |-> Spread(base.includeMdx, overrides[1].includeMdx),
        includeHiddenDirs |-> Spread(base.includeHiddenDirs, overrides[1].includeHiddenDirs),
        excludeDirs |-> Spread(base.excludeDirs, overrides[1].excludeDirs)]

\* mergeScanConfig, lines 115-128
mergeScanConfig(base, overrides) ==
  IF Len(overrides) = 0 THEN base
  ELSE LET mergedExcludeDirs ==
             IF Len(overrides[1].excludeDirs) > 0
             THEN Dedup(base.excludeDirs \o overrides[1].excludeDirs[1], {})
             ELSE base.excludeDirs
       IN [includeMd |-> Spread(base.includeMd, overrides[1].includeMd),
           includeMdx |-> Spread(base.includeMdx, overrides[1].includeMdx),
           includeHiddenDirs |-> Spread(base.includeHiddenDirs, overrides[1].includeHiddenDirs),
           excludeDirs |-> mergedExcludeDirs]

DirNames == {"node_modules", "images", "_build"}

ExcludeLists == SeqsUpTo(DirNames, MaxExcludeDirs)

\* config.scan after loadConfig
ScanConfigs ==
  [includeMd : BOOLEAN, includeMdx : BOOLEAN, includeHiddenDirs : BOOLEAN,
   excludeDirs : ExcludeLists]

OptBool == {<<>>, <<TRUE>>, <<FALSE>>}

\* repo.scan: absent, or an object with any of the keys
ScanOverrides ==
  {<<>>} \cup
  {<<o>> : o \in [includeMd : OptBool, includeMdx : OptBool, includeHiddenDirs : OptBool,
                  excludeDirs : {<<>>} \cup {<<l>> : l \in ExcludeLists}]}

InitMerge ==
  /\ config = CHOOSE c \in Configs : c.repos = BaseRepos
  /\ options = [concurrency |-> Undefined, only |-> <<>>]
  /\ mainPc = "idle"
  /\ raiseReason = ""
  /\ limitN = 0
  /\ taskPc = [r \in 1..Len(config.repos) |-> "none"]
  /\ tree = [r \in 1..Len(config.repos) |-> Unscanned]
  /\ toCopy = [r \in 1..Len(config.repos) |-> {}]
  /\ ws = {}
  /\ started = 0
  /\ completed = 0
  /\ succeeded = 0
  /\ failed = 0
  /\ failures = <<>>
  /\ summary = NoSummary
  /\ outcome = [r \in 1..Len(config.repos) |-> <<>>]
  /\ fsFiles = StaleFiles(config)
  /\ fsDirs = StaleDirs(config)
  /\ giState = "idle"
  /\ giCalls = 0
  /\ giInit = NoFile
  /\ giFile = NoFile
  /\ giLog = <<>>
  /\ HtmlIdle
  /\ \E b \in ScanConfigs, o \in ScanOverrides :
       scanMerge = [base |-> b, overrides |-> o, result |-> <<>>]

\* line 270: const scanConfig = mergeScanConfig(config.scan, repo.scan)
MergeScanCall ==
  /\ scanMerge.result = <<>>
  /\ scanMerge' =
       [scanMerge EXCEPT !.result = <<mergeScanConfig(scanMerge.base, scanMerge.overrides)>>]
  /\ UNCHANGED <<htmlVars, orchVars, giCalls, giFile, giInit, giLog>>

NextMerge == MergeScanCall

SpecMerge == InitMerge /\ [][NextMerge]_vars

(***************************************************************************)
(* Properties.                                                             *)
(***************************************************************************)
Range(f) == {f[i] : i \in DOMAIN f}

Created == Repos # {} /\ \A r \in Repos : taskPc[r] # "none"

EndedPcs == {"done"} \cup RejectedPcs

SucceededRepos == {r \in Repos : outcome[r] = <<"succeeded">>}

FailedRepos == {r \in Repos : outcome[r] = <<"failed">>}

FailureEntries(fs, n) == {i \in 1..Len(fs) : fs[i].name = n}

\* C1: a failure of any step of one repository's unit of work (workspace
\* creation and workspace removal included) never makes generateDocs raise:
\* generateDocs does not raise because a repository task rejected.
C1_NoRaiseOnRepoFailure == raiseReason # "task"

\* C2: succeeded + failed never exceeds the number of tasks started; when
\* generateDocs returns, total is the number of selected repositories,
\* succeeded + failed = total, failures has `failed` elements, every
\* repository was counted exactly once, and the failures entries carry the
\* names of exactly the failed repositories, each with a reason.
C2_SummaryAccounting ==
  /\ succeeded + failed <= started
  /\ mainPc = "returned" =>
       /\ summary.total = Len(repos)
       /\ summary.succeeded + summary.failed = summary.total
       /\ Len(summary.failures) = summary.failed
       /\ \A r \in Repos : Len(outcome[r]) = 1
       /\ summary.succeeded = Cardinality(SucceededRepos)
       /\ \A r \in Repos :
            Cardinality(FailureEntries(summary.failures, repos[r].name))
              = Cardinality({q \in FailedRepos : repos[q].name = repos[r].name})
       /\ \A i \in 1..Len(summary.failures) : summary.failures[i].error # ""

C2_Witness ==
  /\ mainPc = "returned"
  /\ summary.succeeded >= 1
  /\ summary.failed >= 1

\* the pool size N as C3 states it
ClaimedPoolSize ==
  LET given == IF options.concurrency # Undefined THEN options.concurrency
               ELSE IF config.concurrency # Undefined THEN config.concurrency
               ELSE Int_(DefaultConcurrency)
  IN IF given.kind \in {"int", "frac"} /\ IsPositive(given)
     THEN given.v ELSE DefaultConcurrency

\* C3: at every moment the number of repository tasks that have started and
\* not finished is at most the pool size N (the concurrency option, else
\* the configured concurrency, else 2; 2 when that is no positive finite
\* number), and N is the size the pool was created with.
C3_PoolBound ==
  /\ Cardinality(Active) <= ClaimedPoolSize
  /\ Created => limitN = ClaimedPoolSize

C3_Witness ==
  /\ Cardinality(Active) = ClaimedPoolSize
  /\ \E r \in Repos : taskPc[r] = "queued"

\* C4 as stated: whenever a repository task has ended, its temporary
\* workspace no longer exists.
C4_WorkspaceGoneAtTaskEnd ==
  \A r \in Repos : taskPc[r] \in EndedPcs => r \notin ws

\* C4 amended: a task that ends after success, a checkout failure or a
\* thrown error has attempted the removal of its workspace, and the
\* workspace is gone unless that removal itself failed (the task then
\* rejects); when generateDocs returns, no workspace of the run exists.
C4_WorkspaceRemovalAttempted ==
  /\ \A r \in Repos : taskPc[r] = "done" => r \notin ws
  /\ \A r \in Repos : (taskPc[r] \in EndedPcs /\ r \in ws) => taskPc[r] = "rejectedRm"
  /\ \A r \in Repos : taskPc[r] \in EndedPcs \ {"rejectedMkdtemp"} => Len(outcome[r]) = 1
  /\ mainPc = "returned" => ws = {}

C4_Witness ==
  /\ mainPc = "returned"
  /\ ws = {}
  /\ \E i \in 1..Len(failures) : failures[i].error = "checkout.error"
  /\ \E i \in 1..Len(failures) : failures[i].error = "io"

\* the output directory of r holds exactly the files of r's scan result,
\* each as r copied it
OutputIsScanResult(r) ==
  /\ FilesUnder(fsFiles, outputRepoDir(r))
       = {Append(outputRepoDir(r), FileSeg(i)) : i \in tree[r]}
  /\ \A p \in FilesUnder(fsFiles, outputRepoDir(r)) : fsFiles[p].by = r

\* C5: whenever a repository reaches Succeeded, its output directory
\* contains exactly the files of that run's scan result.
C5_OutputExactlyScanResult ==
  [][\A r \in Repos :
       (outcome[r] = <<>> /\ outcome'[r] = <<"succeeded">>) => OutputIsScanResult(r)']_vars

\* the paths repository q owns: its output directory and its index file
Owns(q, p) == IsPrefix(outputRepoDir(q), p) \/ p = indexFilePath(q)

SamePath(p) ==
  /\ p \in DOMAIN fsFiles <=> p \in DOMAIN fsFiles'
  /\ p \in DOMAIN fsFiles /\ p \in DOMAIN fsFiles' => fsFiles[p] = fsFiles'[p]

\* C6: a step of one repository's task never creates, overwrites or deletes
\* a file in another repository's output directory, nor another
\* repository's index file.
C6_TasksConfined ==
  [][\A r, q \in Repos :
       (r # q /\ taskPc'[r] # taskPc[r] /\ ~Escapes(docsRoot, repos[q].name))
         => \A p \in DOMAIN fsFiles \cup DOMAIN fsFiles' : Owns(q, p) => SamePath(p)]_vars

C8_GitignoreFailureHarmless ==
  /\ (giState = "failed" /\ mainPc = "raised") =>
       (raiseReason = "task" /\ \E r \in Repos : taskPc[r] \in RejectedPcs)
  /\ (giState = "failed" /\ mainPc = "awaitGitignore") => ENABLED Return
  /\ (giState = "failed" /\ mainPc = "returned") =>
       /\ summary.succeeded = Cardinality(SucceededRepos)
       /\ summary.failed = Cardinality(FailedRepos)
       /\ Len(summary.failures) = Cardinality(FailedRepos)
       /\ summary.succeeded + summary.failed = Len(repos)

C8_Witness ==
  /\ giState = "failed"
  /\ mainPc = "returned"
  /\ summary.succeeded >= 1

\* entries passed to the updateGitignore calls made so far
PassedEntries == UNION {Range(EntriesOf(giLog[k])) : k \in 1..Len(giLog)}

LinesOf(file) == Split(ReadOrEmpty(file))

\* number of lines of the file that are the string e
Occurrences(file, e) ==
  Cardinality({i \in 1..Len(LinesOf(file)) : LinesOf(file)[i] = e})

\* some line of the file is the entry e, surrounding whitespace aside
Contains(file, e) ==
  \E i \in 1..Len(LinesOf(file)) : Trim(LinesOf(file)[i]) = Trim(e)

\* C9: after any sequence of updateGitignore calls, every entry passed to
\* a call is in the file, and no entry string is more than one line of the
\* file (unless it was so before the first call).
C9_EachEntryOnce ==
  \A e \in PassedEntries :
    /\ Contains(giFile, e)
    /\ Occurrences(giFile, e) <= Max(1, Occurrences(giInit, e))

\* calls that passed at least one entry
WritingCalls == {k \in 1..Len(giLog) : Len(EntriesOf(giLog[k])) > 0}

\* C10: after any number of updateGitignore calls with the same section
\* header, the file contains every entry passed, and the header line
\* `# {sectionHeader}` is in the file and is not more than one line of it
\* (unless it was so before the first call).
C10_HeaderOnce ==
  (\A k, l \in WritingCalls : giLog[k].sectionHeader = giLog[l].sectionHeader) =>
    /\ \A k \in WritingCalls :
         /\ Contains(giFile, HeaderLineOf(giLog[k].sectionHeader))
         /\ Occurrences(giFile, HeaderLineOf(giLog[k].sectionHeader))
              <= Max(1, Occurrences(giInit, HeaderLineOf(giLog[k].sectionHeader)))
    /\ \A e \in PassedEntries : Contains(giFile, e)

\* the call made by the step, and the lines of the file before and after it
IsCall == giCalls' = giCalls + 1

CallArgsOfStep == giLog'[Len(giLog')]

OldLines == Split(ReadOrEmpty(giFile))

NewLines == Split(ReadOrEmpty(giFile'))

\* C11: an updateGitignore call whose entries are all empty or undefined
\* writes nothing: the file is the same afterwards, content and existence.
C11_NoEntriesNoWrite ==
  [][(IsCall /\ Len(EntriesOf(CallArgsOfStep)) = 0) => giFile' = giFile]_vars

C11_Witness ==
  /\ giCalls >= 1
  /\ \A k \in 1..Len(giLog) : Len(EntriesOf(giLog[k])) = 0
  /\ giLog[1].docsEntry = <<<<>>>>
  /\ giFile.exists
  /\ Len(giFile.content) > 0

\* s is t with some elements left out
RECURSIVE IsSubSeqOf(_, _)
IsSubSeqOf(s, t) ==
  IF Len(s) = 0 THEN TRUE
  ELSE IF Len(t) = 0 THEN FALSE
  ELSE IF Head(s) = Head(t) THEN IsSubSeqOf(Tail(s), Tail(t))
  ELSE IsSubSeqOf(s, Tail(t))

\* the lines written are the prior lines, with the header (after a blank
\* line or not) appended or not, with the block of n lines after line h cut
\* out, a final empty line (the trailing newline) aside
FrameKept(old, new, hl, h, n) ==
  LET rest == SubSeq(new, 1, h) \o SubSeq(new, h + n + 1, Len(new))
  IN \E base \in {old, Append(old, hl), old \o <<<<>>, hl>>} :
       rest = base \/ rest = Append(base, <<>>)

\* C12: the lines a call writes are the prior lines (plus the header) with
\* one block spliced in immediately after a header line; the block consists
\* of entries of the call in the order they were passed and holds every
\* entry that was no line of the file; all prior lines keep their content
\* and order, none is removed.
C12_SplicedAfterHeader ==
  [][(IsCall /\ Len(EntriesOf(CallArgsOfStep)) > 0) =>
       LET hl == HeaderLineOf(CallArgsOfStep.sectionHeader)
           es == EntriesOf(CallArgsOfStep)
       IN \E h \in 1..Len(NewLines) : \E n \in 0..Len(es) :
            /\ NewLines[h] = hl \/ Trim(NewLines[h]) = hl
            /\ h + n <= Len(NewLines)
            /\ IsSubSeqOf(SubSeq(NewLines, h + 1, h + n), es)
            /\ \A k \in 1..Len(es) :
                 (\A i \in 1..Len(OldLines) : Trim(OldLines[i]) # Trim(es[k]))
                   => \E j \in (h + 1)..(h + n) : NewLines[j] = es[k]
            /\ FrameKept(OldLines, NewLines, hl, h, n)
    ]_vars

C12_Witness ==
  /\ giCalls = 1
  /\ giInit.exists
  /\ Len(Split(giInit.content)) >= 2
  /\ Split(giInit.content)[1] = HeaderLineOf(giLog[1].sectionHeader)
  /\ Split(giInit.content)[2] = <<"x">>
  /\ Len(EntriesOf(giLog[1])) = 2
  /\ Len(Split(giFile.content)) = Len(Split(giInit.content)) + 2

\* C13: when no line of the file is the header, the header is appended
\* after the prior lines, with one blank line before it only if the file is
\* non-empty and its last line is not blank; for a missing or empty file
\* the first line written is the header.
C13_SeparatorOnlyWhenNeeded ==
  [][(/\ IsCall
      /\ Len(EntriesOf(CallArgsOfStep)) > 0
      /\ \A i \in 1..Len(OldLines) :
           Trim(OldLines[i]) # Trim(HeaderLineOf(CallArgsOfStep.sectionHeader)))
     => LET hl == HeaderLineOf(CallArgsOfStep.sectionHeader)
            lead == IF ReadOrEmpty(giFile) = <<>> THEN <<hl>>
                    ELSE IF Trim(Last(OldLines)) = <<>> THEN Append(OldLines, hl)
                    ELSE OldLines \o <<<<>>, hl>>
        IN /\ Len(NewLines) >= Len(lead)
           /\ SubSeq(NewLines, 1, Len(lead)) = lead
    ]_vars

\* C14: a file written by updateGitignore ends with exactly one newline.
C14_SingleTrailingNewline ==
  WritingCalls # {} =>
    /\ giFile.exists
    /\ EndsWithNL(giFile.content)
    /\ ~EndsWithNL(Front(giFile.content))

\* two repos of the configuration have the same name
HasDuplicateNames(cfg) ==
  \E i, j \in 1..Len(cfg.repos) : i # j /\ cfg.repos[i].name = cfg.repos[j].name

\* some repo name does not match [A-Za-z0-9._-]+
HasBadName(cfg) == \E i \in 1..Len(cfg.repos) : ~repoNameOk(cfg.repos[i].name)

\* nothing of the run has happened below the project root or in the pool
NothingBegun ==
  /\ started = 0
  /\ ws = {}
  /\ \A r \in Repos : taskPc[r] = "none"
  /\ fsFiles = StaleFiles(config)
  /\ fsDirs = StaleDirs(config)
  /\ giState = "idle"
  /\ giCalls = 0

\* C15: a configuration with a repeated repo name or a name outside the
\* pattern is rejected by loading: generateDocs raises at the load and no
\* repository processing begins.
C15_InvalidNamesRejected ==
  (HasDuplicateNames(config) \/ HasBadName(config)) =>
    /\ mainPc \in {"load", "raised"}
    /\ mainPc = "raised" => raiseReason = "config"
    /\ NothingBegun

\* the names of the --only list
OnlyNames == {parseOnly(options.only)[i] : i \in 1..Len(parseOnly(options.only))}

\* the path belongs to a repository named in the --only list
OwnedByListed(p) ==
  \E n \in OnlyNames :
    \/ IsPrefix(Append(docsRoot, n), p)
    \/ p = Append(indicesRoot, Append(n, IndexSuffix))

\* C16: with a non-empty --only list the repositories processed are the
\* configured repos whose name is in the list, every file the run writes
\* belongs to one of them, and when no configured repo matches,
\* generateDocs raises before it creates a directory, touches .gitignore
\* or starts a task.
C16_OnlySelected ==
  OnlyNames # {} =>
    /\ repos = SelectSeq(config.repos, LAMBDA rc : rc.name \in OnlyNames)
    /\ \A r \in Repos : repos[r].name \in OnlyNames
    /\ \A p \in DOMAIN fsFiles : fsFiles[p].by # 0 => OwnedByListed(p)
    /\ (\A i \in 1..Len(config.repos) : config.repos[i].name \notin OnlyNames) =>
         /\ mainPc \in {"load", "select", "raised"}
         /\ mainPc = "raised" => raiseReason = "only"
         /\ NothingBegun

C16_Witness ==
  /\ options.only = <<SP, "b", SP, COMMA, COMMA, "a">>
  /\ mainPc = "returned"
  /\ summary.total = 2
  /\ summary.succeeded = 2

\* the index file of task r was written by task r in this run
IndexWrittenBy(r) ==
  /\ ~Escapes(indicesRoot, IndexFileName(r))
  /\ indexFilePath(r) \in DOMAIN fsFiles
  /\ fsFiles[indexFilePath(r)].by = r

\* C17: a repository with a preprocess directive whose scan of the
\* preprocess output is empty is Failed with the reason "produced no
\* markdown files", is never counted as succeeded, and its task writes no
\* index file.
C17_EmptyPreprocessFails ==
  \A r \in Repos :
    (repos[r].preprocess /\ tree[r] = {}) =>
      /\ outcome[r] = <<"failed">>
      /\ \E i \in 1..Len(failures) :
           /\ failures[i].name = repos[r].name
           /\ failures[i].error = "produced no markdown files"
      /\ ~IndexWrittenBy(r)

C17_Witness ==
  /\ mainPc = "returned"
  /\ \E r \in Repos : repos[r].preprocess /\ tree[r] = {}
  /\ summary.succeeded = 1
  /\ summary.failed = 1


\* the source files whose Markdown has been written, and the Markdown
ConvertedFiles ==
  {f \in DOMAIN coFiles :
     /\ htmlPc \in {"convert", "returned", "failed"}
     /\ coFiles[f].kind = "html"
     /\ IsPrefix(resolvedWorkDir, f)
     /\ f \notin Range(htmlFiles)
     /\ f \in collectHtmlFiles(coFiles, resolvedWorkDir, resolvedOutputDir)
     /\ targetPath(f) \in DOMAIN coFiles
     /\ coFiles[targetPath(f)].kind = "md"}

MarkdownFor(f) == coFiles[targetPath(f)].md

\* the parts of an href as the specification names them: the path
\* component ends before the first "?" or "#", the rest is the query
\* string and the fragment
PathEnd(h) ==
  LET marks == {i \in 1..Len(h) : h[i] \in {QMARK, HASH}}
  IN IF marks = {} THEN Len(h) + 1 ELSE CHOOSE i \in marks : \A j \in marks : i <= j

PathComponent(h) == SubSeq(h, 1, PathEnd(h) - 1)

QueryAndFragment(h) == SubSeq(h, PathEnd(h), Len(h))

EndsInHtml(q) == Len(q) > 0 /\ ToLower(Last(q)) \in {".html", ".htm"}

LeftUntouched(h) ==
  \/ Len(h) = 0
  \/ Head(h) = HASH
  \/ Len(h) >= 2 /\ h[1] = SLASH /\ h[2] = SLASH
  \/ HasScheme(h)
  \/ ~EndsInHtml(PathComponent(h))

\* the href the statement asks for when the rules are read on h
ExpectedHref(h, original) ==
  IF LeftUntouched(h) THEN original
  ELSE Front(PathComponent(h)) \o <<".md">> \o QueryAndFragment(h)

\* C18 as stated: every href of a converted page is untouched if it is
\* empty, a pure fragment, protocol-relative, has a scheme or a path
\* component not ending in .html/.htm, and else is its path component with
\* .md for the ending, followed by its query string and fragment unchanged.
C18_HrefRewritten ==
  \A f \in ConvertedFiles :
    (pre.rewriteLinks /\ Len(MarkdownFor(f).hrefs) > 0)
      => MarkdownFor(f).hrefs[1] = ExpectedHref(coFiles[f].page.href, coFiles[f].page.href)

\* C18 amended: the rules are read on the href without its leading and
\* trailing white space; an href they leave untouched keeps its white
\* space, a rewritten one loses it.
C18_TrimmedHrefRewritten ==
  \A f \in ConvertedFiles :
    (pre.rewriteLinks /\ Len(MarkdownFor(f).hrefs) > 0)
      => MarkdownFor(f).hrefs[1] =
           ExpectedHref(Trim(coFiles[f].page.href), coFiles[f].page.href)

C18_Witness ==
  \E f \in ConvertedFiles :
    /\ pre.rewriteLinks
    /\ coFiles[f].page.href = <<SP, ".HTM", HASH>>
    /\ MarkdownFor(f).hrefs = << <<".md", HASH>> >>


\* the elements of a page that match a selector, body being element 0
MatchesOf(page, sel) == {k \in 0..Len(page.nodes) : Matches(NodeOf(page, k), sel)}

FirstOf(S) == CHOOSE k \in S : \A j \in S : k <= j

\* the content root the statement asks for
ExpectedRoot(page, selector) ==
  IF Len(selector) > 0 /\ MatchesOf(page, selector[1]) # {}
  THEN FirstOf(MatchesOf(page, selector[1]))
  ELSE LET matching == {i \in 1..Len(candidates) : MatchesOf(page, candidates[i]) # {}}
       IN FirstOf(MatchesOf(page, candidates[FirstOf(matching)]))

\* C19: the Markdown of every converted file is made from the first
\* element matching the explicit selector when there is one and it matches,
\* and else from the first element of the earliest matching default; it
\* holds no element outside that root, so with the selector "article" no
\* main element beside the article; a selector that matches nothing does
\* not fail the conversion.
C19_ContentRoot ==
  \A f \in ConvertedFiles :
    LET page == coFiles[f].page
        md == MarkdownFor(f)
    IN /\ md.root = ExpectedRoot(page, pre.selector)
       /\ \A k \in md.content : Inside(page, k, md.root)
       /\ pre.selector = <<TagSel("article")>> /\ MatchesOf(page, TagSel("article")) # {}
            => \A m \in MatchesOf(page, TagSel("main")) :
                 ~Inside(page, m, FirstOf(MatchesOf(page, TagSel("article"))))
                   => m \notin md.content

C19_Witness ==
  \E f \in ConvertedFiles :
    /\ pre.selector = <<TagSel("article")>>
    /\ coFiles[f].page.nodes =
         <<[tag |-> "main", id |-> "", cls |-> "", parent |-> 0],
           [tag |-> "article", id |-> "", cls |-> "", parent |-> 0]>>
    /\ MarkdownFor(f).root = 2
    /\ MarkdownFor(f).content = {2}


\* the files the statement counts: below the work directory, named
\* *.html or *.htm, in no directory whose name starts with "." and not in
\* the output directory
CountedHtml ==
  {f \in DOMAIN coStart.files :
     /\ IsPrefix(resolvedWorkDir, f) /\ f # resolvedWorkDir
     /\ Len(Last(f)) >= 2 /\ ToLower(Last(Last(f))) \in {".html", ".htm"}
     /\ ~IsPrefix(resolvedOutputDir, f)
     /\ ~\E k \in (Len(resolvedWorkDir) + 1)..(Len(f) - 1) : Head(f[k]) = DOT}

ZeroHtmlRun ==
  /\ htmlPc # "idle"
  /\ resolvedWorkDir \in coStart.dirs
  /\ CountedHtml = {}

NoMarkdownWritten ==
  /\ written = 0
  /\ \A f \in DOMAIN coFiles : coFiles[f].kind = "md" => f \in DOMAIN coStart.files

DirsBelow(d, f) == {SubSeq(f, 1, k) : k \in (Len(d) + 1)..(Len(f) - 1)}

\* the files the statement names, among the files of the checkout
NamedHtmlFiles(files) ==
  {f \in DOMAIN files :
     /\ IsPrefix(resolvedWorkDir, f) /\ f # resolvedWorkDir
     /\ Len(Last(f)) >= 2 /\ ToLower(Last(Last(f))) \in {".html", ".htm"}
     /\ ~IsPrefix(resolvedOutputDir, f)
     /\ \A d \in DirsBelow(resolvedWorkDir, f) : Head(Last(d)) # DOT}

\* C21: the collection yields exactly the files under workDir named
\* *.html or *.htm (in any case) that are neither in the subtree of
\* outputDir nor in a hidden directory below workDir, each once; and no
\* file waiting for conversion was written by this run.
C21_CollectedFiles ==
  [][ /\ (htmlPc = "collect" /\ htmlPc' = "convert")
        => /\ Range(htmlFiles') = NamedHtmlFiles(coFiles)
           /\ Len(htmlFiles') = Cardinality(NamedHtmlFiles(coFiles))
      /\ \A i \in 1..Len(htmlFiles') :
           /\ htmlFiles'[i] \in DOMAIN coStart.files
           /\ htmlFiles'[i] \in DOMAIN coFiles'
           /\ coFiles'[htmlFiles'[i]].kind = "html" ]_vars

C21_Witness ==
  /\ htmlPc = "convert"
  /\ htmlFiles = << docsP \o <<<<"p", ".HTM">>>> >>
  /\ docsP \o <<<<DOT, "h">>, <<"h", ".html">>>> \in DOMAIN coFiles
  /\ written = 0


\* a path that is neither the root nor below it
Outside(root, p) == ~IsPrefix(root, p)

\* the repositories whose output directory or index file would lie outside
\* the docs root or the indices root
OutsideRepos ==
  {r \in Repos :
     \/ Outside(docsRoot, Resolve(docsRoot, repos[r].name))
     \/ Outside(indicesRoot, Resolve(indicesRoot, IndexFileName(r)))}

WritingPcs ==
  {"rmOut", "mkdirOut", "rescan", "copyMkdir", "copy", "idxMkdir", "idxWrite"}

HtmlOutside ==
  /\ htmlPc # "idle"
  /\ \/ Outside(CheckoutRoot, resolvedWorkDir)
     \/ Outside(CheckoutRoot, resolvedOutputDir)

\* C22: a repository whose output directory or index file resolves outside
\* its root never reaches a step that clears, creates or writes, no step of
\* its task changes a file or a directory, and it ends as a failure; an
\* HTML preprocessing whose workDir or outputDir resolves outside the
\* checkout fails with "Resolved path escapes root" and leaves every file
\* and directory as it was.
C22_EscapesFail ==
  [][ /\ \A r \in OutsideRepos :
           /\ taskPc'[r] \notin WritingPcs
           /\ outcome'[r] # <<"succeeded">>
           /\ taskPc'[r] = "done" => outcome'[r] = <<"failed">>
           /\ taskPc'[r] # taskPc[r] => (fsFiles' = fsFiles /\ fsDirs' = fsDirs)
      /\ HtmlOutside =>
           /\ htmlPc' \in {"resolve", "failed"}
           /\ htmlPc' = "failed" => htmlError' = "Resolved path escapes root"
           /\ coFiles' = coStart.files /\ coDirs' = coStart.dirs ]_vars

C22_Witness ==
  \E r \in OutsideRepos :
    /\ repos[r].name = NameDotDot
    /\ taskPc[r] = "done"
    /\ outcome[r] = <<"failed">>
    /\ \E i \in 1..Len(failures) :
         failures[i] = [name |-> NameDotDot, error |-> "escapes root"]


\* the tasks of the repositories that have the name of repository r
SameName(r) == {q \in Repos : repos[q].name = repos[r].name}

\* C23: when generateDocs has returned, every repository counted as
\* succeeded has its index file {indicesDir}/{name}-index.md on disk, written
\* in this run by the task of a repository of that name.
C23_IndexExistsAtReturn ==
  mainPc = "returned" =>
    \A r \in Repos :
      outcome[r] = <<"succeeded">> =>
        /\ indexFilePath(r) \in DOMAIN fsFiles
        /\ fsFiles[indexFilePath(r)].by \in SameName(r)


\* the step of the statement a task position belongs to
StepOf(pc) ==
  IF pc = "checkout" THEN "checkout"
  ELSE IF pc = "preprocess" THEN "preprocess"
  ELSE IF pc = "scan" THEN "scan"
  ELSE IF pc \in {"rmOut", "mkdirOut"} THEN "clear"
  ELSE IF pc \in {"rescan", "copyMkdir", "copy"} THEN "copy"
  ELSE IF pc \in {"idxMkdir", "idxWrite"} THEN "index"
  ELSE "none"

\* the step that may come right before a step, for repository r
ComesBefore(r, step) ==
  IF step = "preprocess" THEN {"checkout"}
  ELSE IF step = "scan" THEN {IF repos[r].preprocess THEN "preprocess" ELSE "checkout"}
  ELSE IF step = "clear" THEN {"scan"}
  ELSE IF step = "copy" THEN {"clear"}
  ELSE IF step = "index" THEN {"copy"}
  ELSE {}

\* C24: a task enters preprocess only from checkout and only with a
\* directive, scan only from the step before it, the clearing of the output
\* directory only from scan, copy only from the clearing and the index
\* write only from copy, each time without an error in the step it leaves;
\* a step that records a failure is the last step of the task; files are
\* cleared and copied only in the clear and copy steps and the index file
\* is written only in the index step.
C24_StepOrder ==
  [][\A r \in Repos :
       /\ (StepOf(taskPc'[r]) # StepOf(taskPc[r]) /\ StepOf(taskPc'[r]) # "none")
            => /\ StepOf(taskPc[r]) \in ComesBefore(r, StepOf(taskPc'[r])) \cup
                    (IF taskPc[r] = "mkdtemp" /\ taskPc'[r] = "checkout"
                     THEN {"none"} ELSE {})
               /\ outcome'[r] = <<>>
       /\ StepOf(taskPc'[r]) = "preprocess" => repos[r].preprocess
       /\ outcome'[r] # <<>> => StepOf(taskPc'[r]) = "none"
       /\ (taskPc'[r] # taskPc[r] /\ (fsFiles' # fsFiles \/ fsDirs' # fsDirs))
            => StepOf(taskPc[r]) \in {"clear", "copy", "index"}
       /\ (taskPc'[r] # taskPc[r] /\ ~Escapes(indicesRoot, IndexFileName(r))
             /\ indexFilePath(r) \in DOMAIN fsFiles'
             /\ (indexFilePath(r) \in DOMAIN fsFiles
                   => fsFiles'[indexFilePath(r)] # fsFiles[indexFilePath(r)]))
            => StepOf(taskPc[r]) = "index" ]_vars

C24_Witness ==
  \E r, q \in Repos :
    /\ repos[r].preprocess
    /\ outcome[r] = <<"succeeded">>
    /\ tree[r] # Unscanned
    /\ outcome[q] = <<"failed">>
    /\ tree[q] = Unscanned
    /\ \E i \in 1..Len(failures) :
         failures[i] = [name |-> repos[q].name, error |-> "checkout.error"]


Terminal(r) == outcome[r] \in {<<"succeeded">>, <<"failed">>}

\* C25: once the tasks are created, generateDocs eventually returns, with
\* every selected repository counted exactly once as succeeded or failed
\* and the gitignore call settled; and a repository that was counted keeps
\* its count.
C25_AllTerminalAndReturn ==
  /\ Created ~> ( /\ mainPc = "returned"
                  /\ \A r \in Repos : Terminal(r)
                  /\ giState \in {"idle", "ok", "failed"} )
  /\ [][\A r \in Repos : Terminal(r) => outcome'[r] = outcome[r]]_vars


\* the position of the first occurrence of x in a list
FirstAt(list, x) == FirstOf({i \in 1..Len(list) : list[i] = x})

OutputOfEarlierRun(r) ==
  /\ Append(outputRepoDir(r), StaleSeg) \in DOMAIN fsFiles
  /\ \A p \in FilesUnder(fsFiles, outputRepoDir(r)) : fsFiles[p].by = 0

\* C27: when generateDocs has returned, a repository whose index file on
\* disk is the one an earlier run wrote has its output directory as that
\* run left it: not cleared and not copied into by this run.
C27_IndexAndOutputSameRun ==
  mainPc = "returned" =>
    \A r \in Repos :
      ( /\ ~Escapes(docsRoot, repos[r].name)
        /\ ~Escapes(indicesRoot, IndexFileName(r))
        /\ indexFilePath(r) \in DOMAIN fsFiles
        /\ fsFiles[indexFilePath(r)].by = 0 )
        => OutputOfEarlierRun(r)


\* C28: a repository fails with "Resolved path escapes root" only when its
\* output directory lies outside the docs root or its index file outside
\* the indices root.
C28_OnlyOutsideRejected ==
  \A i \in 1..Len(failures) :
    failures[i].error = "escapes root" =>
      \E r \in OutsideRepos : repos[r].name = failures[i].name


\* the Markdown files in the output directory
MarkdownInOutput ==
  {f \in DOMAIN coFiles : IsPrefix(resolvedOutputDir, f) /\ coFiles[f].kind = "md"}

\* C29: no conversion writes to a path that holds the Markdown of another
\* source file, and after a run that returned the output directory holds
\* as many Markdown files as HTML files were collected and converted.
C29_DistinctTargets ==
  [][ /\ (htmlPc = "convert" /\ written' = written + 1)
        => targetPath(Head(htmlFiles)) \notin MarkdownInOutput
      /\ htmlPc' = "returned" => Cardinality(MarkdownInOutput') = written' ]_vars


\* outputDir is a directory strictly below workDir
OutputNested ==
  IsPrefix(resolvedWorkDir, resolvedOutputDir) /\ resolvedOutputDir # resolvedWorkDir

\* the files under workDir when preprocessing is invoked, but for what an
\* output directory nested in workDir already held
SourceFiles ==
  {f \in DOMAIN coStart.files :
     /\ IsPrefix(resolvedWorkDir, f)
     /\ ~(OutputNested /\ IsPrefix(resolvedOutputDir, f))}

\* C30: when the collection starts, every file that was under workDir
\* when preprocessing was invoked is still there; and when preprocessing
\* fails because workDir is missing or not a directory, no file and no
\* directory has been removed.
C30_SourcesKept ==
  /\ htmlPc = "collect" => \A f \in SourceFiles : f \in DOMAIN coFiles
  /\ htmlError = "HTML workDir not found" =>
       (coFiles = coStart.files /\ coDirs = coStart.dirs)

====
